---- MODULE Spec2Model ----
(***************************************************************************)
(* Model of the NYC taxi trip data pipeline (src/data_pipeline):           *)
(*   clean_trips.py, feature_engineering.py, excluded_records.py and the   *)
(*   orchestrator run_pipeline.py; and of the backend that stores the      *)
(*   trips (src/backend): the streaming cleaner clean_data.py and the      *)
(*   loader DatabaseManager.load_cleaned_data of init_db.py.               *)
(*                                                                         *)
(* A DataFrame is a sequence of rows; a row is a record with one field per *)
(* column.  A column a frame does not have reads as null, as pandas.concat *)
(* aligns frames of different columns.  A nullable cell is <<>> (null,     *)
(* NaN, NaT, <NA>) or <<v>>.  Timestamps are counted in minutes, distances *)
(* in km, amounts in currency units.  The column "row" stands for the      *)
(* columns the pipeline only carries along (vendorid, tip_amount, ...): it *)
(* holds the row's position in the raw frame.                              *)
(***************************************************************************)
EXTENDS Integers, Sequences, FiniteSets, TLC

VARIABLES
    parquet,                \* rows of data/parquet/yellow_tripdata_2019-01.parquet
    trips,                  \* trips_df as load_trip_data returns it
    zones,                  \* raw zone lookup frame
    pc,                     \* position of run_pipeline
    run,                    \* number of runs started
    files,                  \* cleaned_data/: artifact -> file
    writing,                \* artifact whose write is under way, or NoWrite
    pending,                \* the frame being written
    clean_df,               \* locals of run_pipeline
    excluded_clean_df,
    engineered_df,
    excluded_engineered_df,
    excluded_df,
    writes,                 \* history: <<stage, artifact>> written in this run
    calls,                  \* history: functions called in this run
    start_files,            \* history: files as the run found them
    after_done,             \* history: the run follows a finished run, nothing removed
    removed,                \* history: an artifact was removed since the last run ended
    path,                   \* which cleaner feeds the database: "bulk", "streaming", "none"
    raw_rows,               \* backend: rows of the raw csv (data/raw/train_10k.csv)
    spc,                    \* backend: position of clean() and of the database load
    total_rows,             \* backend: counters of clean()
    valid_rows,
    out_rows,               \* backend: rows written to data/cleaned_data.csv
    log,                    \* backend: log entries, <<level, row number>>
    db_trips,               \* backend: rows of the table trips
    csv_file,               \* loader: the file at csv_path, as csv.DictReader reads it
    rejects,                \* loader: positions of the rows whose insert the database rejects
    row_i,                  \* loader: i of the loop of load_cleaned_data
    committed,              \* loader: the table trips as of the last commit
    db_log,                 \* loader: log entries, <<level, row position>>
    db_ret,                 \* loader: what load_cleaned_data returned
    all_trips,              \* api: the list handed to manual_merge_sort_trips
    sort_field,             \* api: its sort_field
    ascending,              \* api: its ascending
    sort_result,            \* api: the lists after the call and the list returned
    cache,                  \* api: _RESPONSE_CACHE, key -> entry
    clock,                  \* api: what time.time() returns
    th,                     \* api: the threads that serve requests, each in a cache call
    nsets,                  \* api: number of _cache_set calls made, the payload of the next
    latest                  \* history: key -> entry of the latest completed _cache_set

(* The state of the backend (streaming cleaner, database). *)
loader == <<csv_file, rejects, row_i, committed, db_log, db_ret>>

(* The state of the web api (backend/api.py, backend/algorithms.py). *)
sorting == <<all_trips, sort_field, ascending, sort_result>>

caching == <<cache, clock, th, nsets, latest>>

web == <<sorting, caching>>

stream == <<path, raw_rows, spc, total_rows, valid_rows, out_rows, log, db_trips, loader,
            web>>

vars == <<parquet, trips, zones, pc, run, files, writing, pending, clean_df,
          excluded_clean_df, engineered_df, excluded_engineered_df,
          excluded_df, writes, calls, start_files, after_done, removed, stream>>

-----------------------------------------------------------------------------
(* Bounds *)

MaxTrips == 2

MaxRuns == 3

MaxRows == 2

MaxCsvRows == 3

-----------------------------------------------------------------------------
(* Cells *)

NULL == <<>>

Some(v) == <<v>>

IsNull(x) == x = <<>>

Val(x) == x[1]

(* Three-valued masks: a comparison on a nullable (masked) column yields   *)
(* <NA> for a null cell, a comparison on a numpy column yields False.      *)
KleeneOr(a, b) ==
    IF a = "T" \/ b = "T" THEN "T"
    ELSE IF a = "NA" \/ b = "NA" THEN "NA"
    ELSE "F"

KleeneNot(a) == IF a = "T" THEN "F" ELSE IF a = "F" THEN "T" ELSE "NA"

Bool(b) == IF b THEN "T" ELSE "F"

Invert(mask) == [i \in DOMAIN mask |-> KleeneNot(mask[i])]

(* df[mask]: the rows whose mask is True; <NA> selects nothing.            *)
BoolIndex(df, mask) ==
    LET f[k \in 0..Len(df)] ==
            IF k = 0 THEN <<>>
            ELSE IF mask[k] = "T" THEN Append(f[k - 1], df[k])
            ELSE f[k - 1]
    IN  f[Len(df)]

SetColumn(df, col, v) == [i \in DOMAIN df |-> [df[i] EXCEPT ![col] = v]]

-----------------------------------------------------------------------------
(* clean_trips.py *)

essential_cols ==
    {"tpep_pickup_datetime", "tpep_dropoff_datetime", "trip_distance",
     "total_amount", "pulocationid", "dolocationid"}

missing_mask_no_dropoff(df) ==
    [i \in DOMAIN df |->
        Bool(\E c \in essential_cols \ {"dolocationid"} : IsNull(df[i][c]))]

missing_mask(df) ==
    [i \in DOMAIN df |-> Bool(\E c \in essential_cols : IsNull(df[i][c]))]

(* float32 and datetime columns: a comparison with NaN / NaT is False.     *)
FloatLe(x, c) == Bool(~IsNull(x) /\ Val(x) <= c)

FloatLt(x, c) == Bool(~IsNull(x) /\ Val(x) < c)

(* passenger_count is Int64 (load_raw_data.py dtype_map): <NA> <= 0 is <NA> *)
Int64Le(x, c) == IF IsNull(x) THEN "NA" ELSE Bool(Val(x) <= c)

TimeLe(x, y) == Bool(~IsNull(x) /\ ~IsNull(y) /\ Val(x) <= Val(y))

invalid_mask_strict_distance(df) ==
    [i \in DOMAIN df |->
        KleeneOr(KleeneOr(KleeneOr(KleeneOr(
            FloatLt(df[i].trip_distance, 0),
            FloatLt(df[i].total_amount, 0)),
            FloatLt(df[i].fare_amount, 0)),
            Int64Le(df[i].passenger_count, 0)),
            TimeLe(df[i].tpep_dropoff_datetime, df[i].tpep_pickup_datetime))]

invalid_mask(df) ==
    [i \in DOMAIN df |->
        KleeneOr(KleeneOr(KleeneOr(KleeneOr(
            FloatLe(df[i].trip_distance, 0),
            FloatLt(df[i].total_amount, 0)),
            FloatLt(df[i].fare_amount, 0)),
            Int64Le(df[i].passenger_count, 0)),
            TimeLe(df[i].tpep_dropoff_datetime, df[i].tpep_pickup_datetime))]

DuplicateKey(r) ==
    <<r.tpep_pickup_datetime, r.tpep_dropoff_datetime, r.pulocationid, r.dolocationid>>

duplicated_keep_last(df) ==
    [i \in DOMAIN df |->
        Bool(\E j \in (i + 1)..Len(df) : DuplicateKey(df[j]) = DuplicateKey(df[i]))]

(* DataFrame.duplicated(subset=...), keep="first" *)
duplicated(df) ==
    [i \in DOMAIN df |->
        Bool(\E j \in 1..(i - 1) : DuplicateKey(df[j]) = DuplicateKey(df[i]))]

(* df.merge(zones_df, how="left", left_on=..., right_on="zone_locationid") *)
merge_left(df, zones_df, left_on, borough_col, zone_col) ==
    LET rowsFor(r) ==
            LET m == SelectSeq(zones_df, LAMBDA z : Some(z.locationid) = r[left_on])
            IN  IF m = <<>>
                THEN << [r EXCEPT ![borough_col] = NULL, ![zone_col] = NULL] >>
                ELSE [k \in 1..Len(m) |->
                        [r EXCEPT ![borough_col] = m[k].borough,
                                  ![zone_col] = m[k].zone]]
        f[k \in 0..Len(df)] ==
            IF k = 0 THEN <<>> ELSE f[k - 1] \o rowsFor(df[k])
    IN  f[Len(df)]

unmatched_mask_dropoff_only(df) ==
    [i \in DOMAIN df |-> Bool(IsNull(df[i].dropoff_zone))]

unmatched_mask_pickup_only(df) ==
    [i \in DOMAIN df |-> Bool(IsNull(df[i].pickup_zone))]

unmatched_mask(df) ==
    [i \in DOMAIN df |-> Bool(IsNull(df[i].pickup_zone) \/ IsNull(df[i].dropoff_zone))]

(* str.title() on the borough names of the lookup; a null stays null.      *)
Title(s) ==
    IF IsNull(s) THEN NULL
    ELSE CASE Val(s) = "EWR" -> Some("Ewr")
           [] Val(s) = "Unknown" -> Some("Unknown")
           [] Val(s) = "Queens" -> Some("Queens")
           [] OTHER -> s

normalize(df) ==
    [i \in DOMAIN df |->
        [df[i] EXCEPT !.pickup_borough = Title(@), !.dropoff_borough = Title(@)]]

(* The frame after each filter of clean_trip_data. *)
after_missing(trips_df) == BoolIndex(trips_df, Invert(missing_mask(trips_df)))

after_invalid(trips_df) ==
    LET df == after_missing(trips_df)
    IN  BoolIndex(df, Invert(invalid_mask(df)))

after_duplicates(trips_df) ==
    LET df == after_invalid(trips_df)
    IN  BoolIndex(df, Invert(duplicated(df)))

after_join(trips_df, zones_df) ==
    merge_left(
        merge_left(after_duplicates(trips_df), zones_df,
                   "pulocationid", "pickup_borough", "pickup_zone"),
        zones_df, "dolocationid", "dropoff_borough", "dropoff_zone")

clean_trip_data(trips_df, zones_df) ==
    LET df1 == after_missing(trips_df)
        df2 == after_invalid(trips_df)
        df4 == after_join(trips_df, zones_df)
        missing_rows ==
            SetColumn(BoolIndex(trips_df, missing_mask(trips_df)),
                      "exclusion_reason", Some("missing_essential_values"))
        invalid_rows ==
            SetColumn(BoolIndex(df1, invalid_mask(df1)),
                      "exclusion_reason", Some("invalid_logical_values"))
        duplicate_rows ==
            SetColumn(BoolIndex(df2, duplicated(df2)),
                      "exclusion_reason", Some("duplicate_trip"))
        unmatched_rows ==
            SetColumn(BoolIndex(df4, unmatched_mask(df4)),
                      "exclusion_reason", Some("unmatched_zone_lookup"))
    IN  [df |-> normalize(BoolIndex(df4, Invert(unmatched_mask(df4)))),
         excluded_df |-> missing_rows \o invalid_rows \o duplicate_rows \o unmatched_rows]

-----------------------------------------------------------------------------
(* feature_engineering.py *)

MaxSpeedKmh == 150

(* A quotient n / d is kept exact as the pair <<n, d>>, d > 0.             *)
RatLe(q, c) == q[1] <= c * q[2]

RatGt(q, c) == q[1] > c * q[2]

RatGe(q, c) == q[1] >= c * q[2]

with_duration(df) ==
    [i \in DOMAIN df |->
        [df[i] EXCEPT !.trip_duration_minutes =
            Some(Val(df[i].tpep_dropoff_datetime) - Val(df[i].tpep_pickup_datetime))]]

(* df["trip_duration_minutes"] < 0 *)
invalid_duration_mask_negative(df) ==
    [i \in DOMAIN df |-> Bool(Val(df[i].trip_duration_minutes) < 0)]

invalid_duration_mask(df) ==
    [i \in DOMAIN df |-> Bool(Val(df[i].trip_duration_minutes) <= 0)]

(* trip_distance / (trip_duration_minutes / 60) *)
with_speed(df) ==
    [i \in DOMAIN df |->
        [df[i] EXCEPT !.average_speed_kmh =
            Some(<<60 * Val(df[i].trip_distance), Val(df[i].trip_duration_minutes)>>)]]

invalid_speed_mask_exclusive(df) ==
    [i \in DOMAIN df |->
        Bool(RatLe(Val(df[i].average_speed_kmh), 0)
             \/ RatGe(Val(df[i].average_speed_kmh), MaxSpeedKmh))]

invalid_speed_mask(df) ==
    [i \in DOMAIN df |->
        Bool(RatLe(Val(df[i].average_speed_kmh), 0)
             \/ RatGt(Val(df[i].average_speed_kmh), MaxSpeedKmh))]

(* total_amount / trip_distance; trip_distance > 0 once the speed is > 0   *)
with_revenue(df) ==
    [i \in DOMAIN df |->
        [df[i] EXCEPT !.revenue_per_km =
            Some(<<Val(df[i].total_amount), Val(df[i].trip_distance)>>)]]

invalid_revenue_mask(df) ==
    [i \in DOMAIN df |-> Bool(RatLe(Val(df[i].revenue_per_km), 0))]

(* The timestamps of the trip frames count minutes from a Monday, 00:00.   *)
MinutesPerHour == 60

MinutesPerDay == 1440

day_name == <<"Monday", "Tuesday", "Wednesday", "Thursday", "Friday", "Saturday", "Sunday">>

(* .dt.hour, .dt.day_name() *)
dt_hour(t) == (t \div MinutesPerHour) % 24

dt_day_name(t) == day_name[((t \div MinutesPerDay) % 7) + 1]

(* 1 if (7 <= x <= 10 or 16 <= x <= 19) else 0 *)
peak(x) == IF (7 <= x /\ x <= 10) \/ (16 <= x /\ x <= 19) THEN 1 ELSE 0

with_time_features(df) ==
    [i \in DOMAIN df |->
        [df[i] EXCEPT !.pickup_hour = Some(dt_hour(Val(df[i].tpep_pickup_datetime))),
                      !.pickup_day = Some(dt_day_name(Val(df[i].tpep_pickup_datetime))),
                      !.is_peak_hour =
                            Some(peak(dt_hour(Val(df[i].tpep_pickup_datetime))))]]

engineer_features(clean) ==
    LET df0 == with_duration(clean)
        df1 == with_speed(BoolIndex(df0, Invert(invalid_duration_mask(df0))))
        df2 == with_revenue(BoolIndex(df1, Invert(invalid_speed_mask(df1))))
        bad_duration ==
            SetColumn(BoolIndex(df0, invalid_duration_mask(df0)),
                      "exclusion_reason", Some("invalid_trip_duration"))
        bad_speed ==
            SetColumn(BoolIndex(df1, invalid_speed_mask(df1)),
                      "exclusion_reason", Some("invalid_average_speed"))
        bad_revenue ==
            SetColumn(BoolIndex(df2, invalid_revenue_mask(df2)),
                      "exclusion_reason", Some("invalid_revenue_per_km"))
    IN  [df |-> with_time_features(BoolIndex(df2, Invert(invalid_revenue_mask(df2)))),
         excluded_df |-> bad_duration \o bad_speed \o bad_revenue]

-----------------------------------------------------------------------------
(* excluded_records.py *)

(* df["pipeline_stage"] = stage, set on the caller's frame, when the frame  *)
(* is neither None nor empty.                                              *)
stamp(df, stage) ==
    IF df # <<>> THEN SetColumn(df, "pipeline_stage", Some(stage)) ELSE df

merge_exclude_records_features_first(excluded_clean, excluded_engineered) ==
    IF excluded_clean = <<>> /\ excluded_engineered = <<>>
    THEN [is_none |-> TRUE, rows |-> <<>>]
    ELSE [is_none |-> FALSE,
          rows |-> stamp(excluded_engineered, "feature_engineering")
                   \o stamp(excluded_clean, "cleaning")]

(* None when there is no frame to concatenate.                            *)
merge_exclude_records(excluded_clean, excluded_engineered) ==
    IF excluded_clean = <<>> /\ excluded_engineered = <<>>
    THEN [is_none |-> TRUE, rows |-> <<>>]
    ELSE [is_none |-> FALSE,
          rows |-> stamp(excluded_clean, "cleaning")
                   \o stamp(excluded_engineered, "feature_engineering")]

-----------------------------------------------------------------------------
(* Python floats of the backend, kept exact as quotients <<n, d>>, d > 0.  *)

RECURSIVE GCD(_, _)
GCD(a, b) == IF b = 0 THEN (IF a < 0 THEN -a ELSE a) ELSE GCD(b, a % b)

Abs(a) == IF a < 0 THEN -a ELSE a

RNorm(q) ==
    LET g == GCD(Abs(q[1]), q[2])
    IN  IF g = 0 THEN q ELSE <<q[1] \div g, q[2] \div g>>

R(n) == <<n, 1>>

RMul(a, b) ==
    LET x == RNorm(<<a[1], b[2]>>)
        y == RNorm(<<b[1], a[2]>>)
    IN  RNorm(<<x[1] * y[1], x[2] * y[2]>>)

(* a / b, b not 0 *)
RDiv(a, b) ==
    IF b[1] > 0 THEN RMul(a, <<b[2], b[1]>>) ELSE RMul(a, <<-b[2], -b[1]>>)

RSub(a, b) == RNorm(<<a[1] * b[2] - b[1] * a[2], a[2] * b[2]>>)

RLt(a, b) == a[1] * b[2] < b[1] * a[2]

RLe(a, b) == a[1] * b[2] <= b[1] * a[2]

REq(a, b) == RNorm(a) = RNorm(b)

RMax(a, b) == IF RLt(a, b) THEN b ELSE a

RMin(a, b) == IF RLt(b, a) THEN b ELSE a

-----------------------------------------------------------------------------
(* backend/clean_data.py *)

(* A cell of a csv.DictReader row: a number written out ("num"), a text    *)
(* that float() rejects ("text"), None as a short row gives it ("none"),   *)
(* or the column is not in the file at all ("absent").                     *)
Num(v) == [k |-> "num", v |-> v]

Text == [k |-> "text", v |-> R(0)]

None == [k |-> "none", v |-> R(0)]

AbsentCell == [k |-> "absent", v |-> R(0)]

(* float(row.get(col, default)): a value, or TypeError / ValueError.       *)
float(cell, default) ==
    CASE cell.k = "num" -> [ok |-> TRUE, v |-> cell.v]
      [] cell.k = "absent" -> [ok |-> TRUE, v |-> default]
      [] OTHER -> [ok |-> FALSE, v |-> default]

(* 40.4774, 40.9176, -74.2591, -73.7004 *)
NYC_MIN_LAT == <<404774, 10000>>

NYC_MAX_LAT == <<409176, 10000>>

NYC_MIN_LON == <<-742591, 10000>>

NYC_MAX_LON == <<-737004, 10000>>

is_valid_coordinate(lat, lon) ==
    /\ RLe(NYC_MIN_LAT, lat) /\ RLe(lat, NYC_MAX_LAT)
    /\ RLe(NYC_MIN_LON, lon) /\ RLe(lon, NYC_MAX_LON)

(* haversine_km, R = 6371.0, as the function returns it for the points of  *)
(* the model, to four decimals: from (40.75, -73.99) it is 2.0185 km to    *)
(* (40.76, -73.97) and 1.1119 km to (40.76, -73.99).                       *)
haversine_km(lat1, lon1, lat2, lon2) ==
    IF REq(lat1, lat2) /\ REq(lon1, lon2) THEN R(0)
    ELSE IF REq(lon1, lon2) THEN <<11119, 10000>>
    ELSE <<4037, 2000>>

(* parse_dt: a time, counted in seconds from a Monday 00:00:00; None with  *)
(* a warning for a text of another format; None for an empty cell.         *)
parse_dt(cell) ==
    CASE cell.k = "num" -> [ok |-> TRUE, v |-> cell.v[1], log |-> <<>>]
      [] cell.k = "text" -> [ok |-> FALSE, v |-> 0, log |-> <<"WARNING">>]
      [] OTHER -> [ok |-> FALSE, v |-> 0, log |-> <<>>]

(* 1.60934 *)
MILES_TO_KM == <<80467, 50000>>

SecondsPerHour == 3600

SecondsPerDay == 86400

hour(t) == (t \div SecondsPerHour) % 24

weekday(t) == (t \div SecondsPerDay) % 7

(* int(x), x >= 0 *)
int(q) == q[1] \div q[2]

(* x or 1 *)
OrOne(x) == IF x[1] = 0 THEN R(1) ELSE x

Returned(cleaned_row, entries) == [none |-> FALSE, row |-> cleaned_row, log |-> entries]

ReturnedNone(entries) == [none |-> TRUE, row |-> [row |-> 0], log |-> entries]

(* return None with nothing logged *)
discard_silently(entries, level) == ReturnedNone(entries)

(* logging.warning(...) or logging.error(...), then return None *)
discard(entries, level) == ReturnedNone(Append(entries, level))

Clamp01(x) == RMax(R(0), RMin(R(1), x))

(* The dictionary calculate_features builds at its end, from its locals.   *)
cleaned_row(row, duration, haversine_dist, trip_distance_km, fare_amount) ==
    LET avg_speed_kmh == RMul(RDiv(trip_distance_km, R(duration)), R(SecondsPerHour))
        fare_per_km ==
            IF RLt(R(0), trip_distance_km) THEN RDiv(fare_amount, trip_distance_km)
            ELSE R(0)
        pickup_dt == parse_dt(row.pickup_datetime).v
        pickup_hour == hour(pickup_dt)
        is_weekend == IF weekday(pickup_dt) >= 5 THEN 1 ELSE 0
        ratio == RDiv(haversine_dist, OrOne(trip_distance_km))
        is_peak_hour ==
            IF is_weekend = 0 /\ ((7 <= pickup_hour /\ pickup_hour < 10)
                                  \/ (16 <= pickup_hour /\ pickup_hour < 19))
            THEN 1 ELSE 0
    IN  [row |-> row.row,
         pickup_datetime |-> Some(pickup_dt),
         dropoff_datetime |-> Some(parse_dt(row.dropoff_datetime).v),
         pickup_lat |-> Some(float(row.pickup_latitude, R(0)).v),
         pickup_lon |-> Some(float(row.pickup_longitude, R(0)).v),
         dropoff_lat |-> Some(float(row.dropoff_latitude, R(0)).v),
         dropoff_lon |-> Some(float(row.dropoff_longitude, R(0)).v),
         trip_distance_km |-> Some(trip_distance_km),
         trip_duration_sec |-> Some(duration),
         fare_amount |-> Some(fare_amount),
         tip_amount |-> Some(float(row.tip_amount, R(0)).v),
         passenger_count |-> Some(int(float(row.passenger_count, R(1)).v)),
         avg_speed_kmh |-> Some(avg_speed_kmh),
         fare_per_km |-> Some(fare_per_km),
         pickup_hour |-> Some(pickup_hour),
         weekday |-> Some(weekday(pickup_dt)),
         is_weekend |-> Some(is_weekend),
         haversine_km |-> Some(haversine_dist),
         idle_time_ratio |-> Some(Clamp01(RSub(R(1), ratio))),
         trip_efficiency |-> Some(ratio),
         is_peak_hour |-> Some(is_peak_hour)]

(* What calculate_features returns for a row, and the levels of the log    *)
(* entries it makes on the way.                                            *)
calculate_features(row) ==
    LET pickup_dt == parse_dt(row.pickup_datetime)
        dropoff_dt == parse_dt(row.dropoff_datetime)
        entries == pickup_dt.log \o dropoff_dt.log
        duration == dropoff_dt.v - pickup_dt.v
        pickup_lat == float(row.pickup_latitude, R(0))
        pickup_lon == float(row.pickup_longitude, R(0))
        dropoff_lat == float(row.dropoff_latitude, R(0))
        dropoff_lon == float(row.dropoff_longitude, R(0))
        haversine_dist ==
            haversine_km(pickup_lat.v, pickup_lon.v, dropoff_lat.v, dropoff_lon.v)
        dist == float(row.trip_distance, R(0))
        trip_distance_km == IF dist.ok THEN RMul(dist.v, MILES_TO_KM) ELSE R(0)
        fare_amount == float(row.fare_amount, R(0))
    IN  IF ~(pickup_dt.ok /\ dropoff_dt.ok) THEN discard(entries, "WARNING")
        ELSE IF duration <= 0 THEN discard(entries, "WARNING")
        ELSE IF ~(pickup_lat.ok /\ pickup_lon.ok /\ dropoff_lat.ok /\ dropoff_lon.ok)
        THEN discard(entries, "WARNING")
        ELSE IF ~(/\ is_valid_coordinate(pickup_lat.v, pickup_lon.v)
                  /\ is_valid_coordinate(dropoff_lat.v, dropoff_lon.v))
        THEN discard(entries, "WARNING")
        \* fare_amount is unbound when float() failed: UnboundLocalError,
        \* ValueError or TypeError in the dictionary, caught by except Exception
        ELSE IF ~fare_amount.ok THEN discard(entries, "ERROR")
        ELSE IF ~float(row.tip_amount, R(0)).ok THEN discard(entries, "ERROR")
        ELSE IF ~float(row.passenger_count, R(1)).ok THEN discard(entries, "ERROR")
        ELSE Returned(cleaned_row(row, duration, haversine_dist, trip_distance_km,
                                  fare_amount.v), entries)

-----------------------------------------------------------------------------
(* backend/init_db.py *)

(* Two more cells of a csv row: the empty text and the text \N.            *)
Empty == [k |-> "empty", v |-> R(0)]

SentinelN == [k |-> "sentinel", v |-> R(0)]

(* value not in (None, "", "\\N") *)
HasValue(cell) == cell.k \in {"num", "text"}

(* _get that takes the last of the named columns with a value.             *)
Get_last(row, names) ==
    LET present == SelectSeq(names, LAMBDA n : n \in DOMAIN row /\ HasValue(row[n]))
    IN  IF present = <<>> THEN None ELSE row[present[Len(present)]]

(* _get: the first of the named columns the row has a value in, or None.   *)
Get(row, names) ==
    LET present == SelectSeq(names, LAMBDA n : n \in DOMAIN row /\ HasValue(row[n]))
    IN  IF present = <<>> THEN None ELSE row[present[1]]

(* _parse_float: float(value), None for no value and for a text that       *)
(* float() rejects.                                                        *)
parse_float(value) == IF value.k = "num" THEN Some(value.v) ELSE NULL

(* _parse_int: int(float(value)), None likewise.                           *)
parse_int(value) == IF value.k = "num" THEN Some(int(value.v)) ELSE NULL

(* _parse_datetime: None for a text that no format parses.                 *)
parse_datetime(value) == IF value.k = "num" THEN Some(value.v[1]) ELSE NULL

(* A cell as to_csv and csv.DictWriter write it and csv.DictReader reads   *)
(* it back: the number written out, the empty text for a null.             *)
CsvNumber(x) == IF IsNull(x) THEN Empty ELSE Num(R(Val(x)))

CsvFloat(x) == IF IsNull(x) THEN Empty ELSE Num(Val(x))

(* csv.DictReader over cleaned_trips.csv of the data pipeline.             *)
DictReaderRows(rows) ==
    [i \in DOMAIN rows |->
        [row |-> rows[i].row,
         tpep_pickup_datetime |-> CsvNumber(rows[i].tpep_pickup_datetime),
         tpep_dropoff_datetime |-> CsvNumber(rows[i].tpep_dropoff_datetime),
         pulocationid |-> CsvNumber(rows[i].pulocationid),
         dolocationid |-> CsvNumber(rows[i].dolocationid),
         passenger_count |-> CsvNumber(rows[i].passenger_count),
         trip_distance |-> CsvNumber(rows[i].trip_distance),
         total_amount |-> CsvNumber(rows[i].total_amount),
         fare_amount |-> CsvNumber(rows[i].fare_amount),
         trip_duration_minutes |-> CsvNumber(rows[i].trip_duration_minutes),
         average_speed_kmh |-> CsvFloat(rows[i].average_speed_kmh),
         revenue_per_km |-> CsvFloat(rows[i].revenue_per_km)]]

(* csv.DictReader over data/cleaned_data.csv of the streaming cleaner.     *)
DictReaderCleaned(rows) ==
    [i \in DOMAIN rows |->
        [row |-> rows[i].row,
         pickup_datetime |-> CsvNumber(rows[i].pickup_datetime),
         dropoff_datetime |-> CsvNumber(rows[i].dropoff_datetime),
         pickup_lat |-> CsvFloat(rows[i].pickup_lat),
         pickup_lon |-> CsvFloat(rows[i].pickup_lon),
         dropoff_lat |-> CsvFloat(rows[i].dropoff_lat),
         dropoff_lon |-> CsvFloat(rows[i].dropoff_lon),
         trip_distance_km |-> CsvFloat(rows[i].trip_distance_km),
         trip_duration_sec |-> CsvNumber(rows[i].trip_duration_sec),
         fare_amount |-> CsvFloat(rows[i].fare_amount),
         tip_amount |-> CsvFloat(rows[i].tip_amount),
         passenger_count |-> CsvNumber(rows[i].passenger_count),
         avg_speed_kmh |-> CsvFloat(rows[i].avg_speed_kmh),
         fare_per_km |-> CsvFloat(rows[i].fare_per_km),
         pickup_hour |-> CsvNumber(rows[i].pickup_hour),
         weekday |-> CsvNumber(rows[i].weekday),
         is_weekend |-> CsvNumber(rows[i].is_weekend),
         haversine_km |-> CsvFloat(rows[i].haversine_km),
         idle_time_ratio |-> CsvFloat(rows[i].idle_time_ratio),
         trip_efficiency |-> CsvFloat(rows[i].trip_efficiency),
         is_peak_hour |-> CsvNumber(rows[i].is_peak_hour)]]

(* int(duration_min * 60) *)
SecondsOfMinutes(q) == (q[1] * 60) \div q[2]

(* The body of the loop of load_cleaned_data raises AttributeError for the *)
(* row: it has no weekday and a pickup time that _parse_datetime cannot    *)
(* read, so that None.weekday() is called.                                 *)
RaisesAttributeError(row) ==
    LET pickup_dt == Get(row, <<"pickup_datetime", "tpep_pickup_datetime">>)
    IN  /\ IsNull(parse_int(Get(row, <<"pickup_weekday", "weekday">>)))
        /\ HasValue(pickup_dt)
        /\ IsNull(parse_datetime(pickup_dt))

(* The tuple load_cleaned_data inserts into trips for one row of the csv.  *)
row_data(row) ==
    LET pickup_dt == Get(row, <<"pickup_datetime", "tpep_pickup_datetime">>)
        km == parse_float(Get(row, <<"trip_distance_km">>))
        dist_miles == parse_float(Get(row, <<"trip_distance", "distance">>))
        sec == parse_int(Get(row, <<"trip_duration_sec">>))
        duration_min ==
            parse_float(Get(row, <<"trip_duration_minutes", "trip_duration_min">>))
        weekday_col == parse_int(Get(row, <<"pickup_weekday", "weekday">>))
        pickup_weekday ==
            IF IsNull(weekday_col) /\ HasValue(pickup_dt)
            THEN Some(weekday(Val(parse_datetime(pickup_dt))))
            ELSE weekday_col
        is_weekend_col == parse_int(Get(row, <<"is_weekend">>))
    IN  [row |-> row.row,
         pickup_datetime |-> pickup_dt,
         dropoff_datetime |-> Get(row, <<"dropoff_datetime", "tpep_dropoff_datetime">>),
         trip_distance_km |->
            IF ~IsNull(km) THEN km
            ELSE IF ~IsNull(dist_miles) THEN Some(RMul(Val(dist_miles), MILES_TO_KM))
            ELSE NULL,
         trip_duration_sec |->
            IF ~IsNull(sec) THEN sec
            ELSE IF ~IsNull(duration_min) THEN Some(SecondsOfMinutes(Val(duration_min)))
            ELSE NULL,
         haversine_distance_km |->
            parse_float(Get(row, <<"haversine_distance_km", "haversine_km">>)),
         fare_amount |-> parse_float(Get(row, <<"fare_amount", "fare">>)),
         avg_speed_kmh |-> parse_float(Get(row, <<"avg_speed_kmh", "average_speed_kmh">>)),
         fare_per_km |-> parse_float(Get(row, <<"fare_per_km", "revenue_per_km">>)),
         pickup_weekday |-> pickup_weekday,
         is_weekend |->
            IF IsNull(is_weekend_col) /\ ~IsNull(pickup_weekday)
            THEN Some(IF Val(pickup_weekday) >= 5 THEN 1 ELSE 0)
            ELSE is_weekend_col,
         idle_time_ratio |-> parse_float(Get(row, <<"idle_time_ratio">>)),
         trip_efficiency |-> parse_float(Get(row, <<"trip_efficiency">>))]

(* self.conn.rollback() that leaves the inserted rows in the table.        *)
rollback_keeps(table, committed_rows) == table

(* self.conn.rollback(): the table is as the last commit left it.          *)
rollback(table, committed_rows) == committed_rows

-----------------------------------------------------------------------------
(* Inputs: data/parquet *)

NoColumns ==
    [pickup_borough |-> NULL, pickup_zone |-> NULL,
     dropoff_borough |-> NULL, dropoff_zone |-> NULL,
     trip_duration_minutes |-> NULL, average_speed_kmh |-> NULL,
     revenue_per_km |-> NULL, pickup_hour |-> NULL, pickup_day |-> NULL,
     is_peak_hour |-> NULL, exclusion_reason |-> NULL, pipeline_stage |-> NULL]

(* A trip of 5 km in 2 minutes (150 km/h) between two points of zone 1.    *)
BaseTrip ==
    [row |-> 0,
     tpep_pickup_datetime |-> Some(0), tpep_dropoff_datetime |-> Some(2),
     trip_distance |-> Some(5), total_amount |-> Some(8), fare_amount |-> Some(8),
     passenger_count |-> Some(1), pulocationid |-> Some(1), dolocationid |-> Some(1)]
    @@ NoColumns

CellValues ==
    ({"tpep_pickup_datetime"} \X {NULL, Some(0), Some(2)})
    \cup ({"tpep_dropoff_datetime"} \X {NULL, Some(2)})
    \cup ({"trip_distance"} \X {NULL, Some(0), Some(5), Some(6)})
    \cup ({"total_amount", "fare_amount"} \X {NULL, Some(-1), Some(0), Some(8)})
    \cup ({"passenger_count"} \X {NULL, Some(0), Some(1)})
    \cup ({"pulocationid", "dolocationid"} \X {NULL, Some(1), Some(2), Some(3), Some(9)})

(* Trips that differ from BaseTrip in at most one cell, in at most two.    *)
OneOff == {[BaseTrip EXCEPT ![cv[1]] = cv[2]] : cv \in CellValues}

TwoOff == UNION {{[t EXCEPT ![cv[1]] = cv[2]] : cv \in CellValues} : t \in OneOff}

Numbered(s) == [i \in DOMAIN s |-> [s[i] EXCEPT !.row = i]]

(* A timestamp cell of the parquet file: a timestamp, a text that is no    *)
(* timestamp, or nothing.                                                  *)
Stored(x) == IF IsNull(x) THEN None ELSE Num(R(Val(x)))

(* The row of the file that load_trip_data reads as trip t. *)
ParquetRow(t) ==
    [t EXCEPT !.tpep_pickup_datetime = Stored(@), !.tpep_dropoff_datetime = Stored(@)]

ParquetRows(ts) == {ParquetRow(t) : t \in ts}

ParquetFile(s) == [i \in DOMAIN s |-> ParquetRow(s[i])]

(* Rows whose pickup or dropoff timestamp cannot be parsed. *)
Unparseable ==
    {[ParquetRow(BaseTrip) EXCEPT !.tpep_pickup_datetime = Text],
     [ParquetRow(BaseTrip) EXCEPT !.tpep_dropoff_datetime = Text],
     [ParquetRow(BaseTrip) EXCEPT !.tpep_dropoff_datetime = Text,
                                  !.trip_distance = Some(0)]}

(* pd.to_datetime(..., errors="coerce") of a cell with the parse failure   *)
(* turned into the epoch instead of NaT.                                   *)
to_datetime_epoch(cell) == IF cell.k = "none" THEN NULL ELSE Some(cell.v[1])

(* pd.to_datetime(..., errors="coerce") of a cell: NaT where the cell is   *)
(* empty or cannot be parsed.                                              *)
to_datetime(cell) == IF cell.k = "num" THEN Some(cell.v[1]) ELSE NULL

(* load_trip_data: read_parquet, the two datetime columns parsed.          *)
load_trip_data(rows) ==
    [i \in DOMAIN rows |->
        [rows[i] EXCEPT !.tpep_pickup_datetime = to_datetime(@),
                        !.tpep_dropoff_datetime = to_datetime(@)]]

(* taxi_zone_lookup: read_csv turns the cells "NA" and "N/A" into nulls.   *)
ZoneLookup ==
    << [locationid |-> 1, borough |-> Some("EWR"), zone |-> Some("Newark Airport")],
       [locationid |-> 2, borough |-> NULL, zone |-> Some("Outside of NYC")],
       [locationid |-> 3, borough |-> Some("Unknown"), zone |-> NULL] >>

ZoneLookupRepeated ==
    Append(ZoneLookup, [locationid |-> 1, borough |-> Some("Queens"), zone |-> Some("Astoria")])

ZoneTables == {ZoneLookup, ZoneLookupRepeated}

UniqueLocationIds(zones_df) ==
    \A i, j \in DOMAIN zones_df :
        zones_df[i].locationid = zones_df[j].locationid => i = j

-----------------------------------------------------------------------------
(* run_pipeline.py *)

ZONES_GEO_FILE == "zones_geo_cleaned.geojson"

ZONES_CLEANED_FILE == "zones_cleaned.csv"

CLEANED_TRIPS_FILE == "cleaned_trips.csv"

EXCLUDED_FILE == "excluded_records.csv"

Artifacts == {ZONES_GEO_FILE, ZONES_CLEANED_FILE, CLEANED_TRIPS_FILE, EXCLUDED_FILE}

NoWrite == "none"

(* A file: whether the path exists, whether its writer finished, whether   *)
(* its header has the column trip_duration_minutes, and its rows.          *)
Absent == [exists |-> FALSE, complete |-> FALSE, features |-> FALSE, rows |-> <<>>]

Frame(features, rows) == [features |-> features, rows |-> rows]

NoFrame == Frame(FALSE, <<>>)

(* to_csv / to_file open the path for writing: the file exists, truncated, *)
(* from then on, and holds the whole frame once the writer has returned.   *)
Opened(frame) ==
    [exists |-> TRUE, complete |-> FALSE, features |-> frame.features, rows |-> <<>>]

Written(frame) ==
    [exists |-> TRUE, complete |-> TRUE, features |-> frame.features, rows |-> frame.rows]

Truncated(frame, k) ==
    [exists |-> TRUE, complete |-> FALSE, features |-> frame.features,
     rows |-> SubSeq(frame.rows, 1, k)]

(* pd.read_csv(CLEANED_TRIPS_FILE, parse_dates=...): the header and the    *)
(* rows of the file.  The cells of the model (integers, timestamps, names  *)
(* that read_csv already produced) are read back as they were written.     *)
read_csv(file) == Frame(file.features, file.rows)

HasFeatureColumn_never(df) == FALSE

(* "trip_duration_minutes" in clean_df.columns *)
HasFeatureColumn(df) == df.features

Idle == {"NOT_STARTED", "DONE", "FAILED"}

Running == {"geo", "zones", "clean", "features", "merge", "finish"}

TypeOK ==
    /\ pc \in Idle \cup Running
    /\ run \in 0..MaxRuns
    /\ writing \in Artifacts \cup {NoWrite}
    /\ DOMAIN files = Artifacts

(* No run has started yet. *)
NotStarted ==
    /\ pc = "NOT_STARTED"
    /\ run = 0
    /\ writing = NoWrite
    /\ pending = NoFrame
    /\ clean_df = NoFrame
    /\ excluded_clean_df = <<>>
    /\ engineered_df = NoFrame
    /\ excluded_engineered_df = <<>>
    /\ excluded_df = [is_none |-> TRUE, rows |-> <<>>]
    /\ writes = {}
    /\ calls = {}
    /\ start_files = [a \in Artifacts |-> Absent]
    /\ after_done = FALSE
    /\ removed = FALSE

InitRun ==
    /\ files = [a \in Artifacts |-> Absent]
    /\ NotStarted

(* No file at csv_path. *)
NoFile == [exists |-> FALSE, rows |-> <<>>]

(* manual_merge_sort_trips has not been called. *)
NotSorted == [called |-> FALSE, ret |-> "none", lists |-> <<>>]

SortIdle ==
    /\ all_trips = <<>>
    /\ sort_field = "fare_amount"
    /\ ascending = TRUE
    /\ sort_result = NotSorted

(* The keys of the response cache, by the endpoint that makes them, and    *)
(* the threads that serve requests.                                        *)
CacheKeys == {"trips", "locations"}

CacheThreads == {1, 2}

(* No record under a key: _RESPONSE_CACHE.get(key) is None.                *)
NoEntry == [has |-> FALSE, expires_at |-> 0, payload |-> 0]

Entry(expires_at, payload) == [has |-> TRUE, expires_at |-> expires_at, payload |-> payload]

(* A thread that is in no cache call and has made none.                    *)
ThreadIdle ==
    [pc |-> "idle", key |-> "trips", now |-> 0, expires_at |-> 0, payload |-> 0,
     ret |-> 0, found |-> NoEntry, known |-> NoEntry, at |-> 0, left |-> NoEntry]

(* The module as imported: _RESPONSE_CACHE = {}.                           *)
CacheIdle ==
    /\ cache = [key \in CacheKeys |-> NoEntry]
    /\ clock = 0
    /\ th = [t \in CacheThreads |-> ThreadIdle]
    /\ nsets = 0
    /\ latest = [key \in CacheKeys |-> NoEntry]

(* The web api serves no request. *)
WebIdle == SortIdle /\ CacheIdle

(* The backend before clean() and the database load. *)
BackendIdle ==
    /\ WebIdle
    /\ spc = "idle"
    /\ total_rows = 0
    /\ valid_rows = 0
    /\ out_rows = <<>>
    /\ log = <<>>
    /\ db_trips = <<>>
    /\ row_i = 0
    /\ committed = <<>>
    /\ db_log = <<>>
    /\ db_ret = "none"

(* The data pipeline alone: the backend is not run. *)
NoBackend ==
    /\ path = "none"
    /\ raw_rows = <<>>
    /\ csv_file = NoFile
    /\ rejects = {}
    /\ BackendIdle

(* Trips as they commonly come: the base trip, and the base trip with a    *)
(* null passenger count, a zero fare, a zero distance, a zero total, a     *)
(* dropoff in zone 2, a pickup in no zone, a dropoff at pickup time.       *)
CommonTrips ==
    {BaseTrip,
     [BaseTrip EXCEPT !.passenger_count = NULL],
     [BaseTrip EXCEPT !.fare_amount = Some(0)],
     [BaseTrip EXCEPT !.trip_distance = Some(0)],
     [BaseTrip EXCEPT !.total_amount = Some(0)],
     [BaseTrip EXCEPT !.dolocationid = Some(2)],
     [BaseTrip EXCEPT !.pulocationid = Some(9)],
     [BaseTrip EXCEPT !.tpep_pickup_datetime = Some(2)]}

(* The raw frames of a first run: up to MaxTrips trips, one of them up to  *)
(* two cells away from BaseTrip, at any position, the others common.       *)
InitFirstRun ==
    /\ \E n \in 1..MaxTrips :
        \E k \in 1..n :
            \E d \in ParquetRows(TwoOff) \cup Unparseable :
                \E s \in [(1..n) \ {k} -> ParquetRows(CommonTrips)] :
                    parquet = Numbered([i \in 1..n |-> IF i = k THEN d ELSE s[i]])
    /\ trips = <<>>
    /\ zones \in ZoneTables
    /\ InitRun
    /\ NoBackend

(* The raw frames of the runs that fail, are repeated and find artifacts:  *)
(* frames with and without exclusions at either stage.                     *)
SampleFrames ==
    LET ok == BaseTrip
        dropped == [BaseTrip EXCEPT !.passenger_count = NULL]
        invalid == [BaseTrip EXCEPT !.trip_distance = Some(0)]
        unpaid == [BaseTrip EXCEPT !.total_amount = Some(0)]
    IN  {<<ok>>, <<ok, invalid>>, <<unpaid, ok>>, <<invalid, unpaid>>,
         <<ok, dropped>>, <<invalid, ok, unpaid>>}

Init ==
    /\ \E s \in SampleFrames : parquet = ParquetFile(Numbered(s))
    /\ trips = <<>>
    /\ zones \in ZoneTables
    /\ InitRun
    /\ NoBackend

inputs == <<parquet, trips, zones>>

locals == <<clean_df, excluded_clean_df, engineered_df, excluded_engineered_df, excluded_df>>

history == <<start_files, after_done>>

(* run_pipeline is entered: ensure_directory, load_all_raw_data.           *)
StartRun ==
    /\ pc \in Idle
    /\ run < MaxRuns
    /\ pc' = "geo"
    /\ run' = run + 1
    /\ clean_df' = NoFrame
    /\ excluded_clean_df' = <<>>
    /\ engineered_df' = NoFrame
    /\ excluded_engineered_df' = <<>>
    /\ excluded_df' = [is_none |-> TRUE, rows |-> <<>>]
    /\ writes' = {}
    /\ calls' = {}
    /\ start_files' = files
    /\ after_done' = (pc = "DONE" /\ ~removed)
    /\ removed' = FALSE
    /\ trips' = load_trip_data(parquet)
    /\ UNCHANGED <<parquet, zones, stream, files, writing, pending>>

FirstRun == pc = "NOT_STARTED" /\ StartRun

BeginWrite(stage, artifact, frame) ==
    /\ files' = [files EXCEPT ![artifact] = Opened(frame)]
    /\ writing' = artifact
    /\ pending' = frame
    /\ writes' = writes \cup {<<stage, artifact>>}

NoWriteHere == UNCHANGED <<files, writing, pending, writes>>

(* Clean GEOJSON *)
GeoStage ==
    /\ pc = "geo" /\ writing = NoWrite
    /\ IF ~files[ZONES_GEO_FILE].exists
       THEN BeginWrite("geo", ZONES_GEO_FILE, NoFrame)
       ELSE NoWriteHere
    /\ pc' = "zones"
    /\ UNCHANGED <<inputs, stream, run, locals, calls, history, removed>>

(* Save zones csv *)
ZonesStage ==
    /\ pc = "zones" /\ writing = NoWrite
    /\ IF ~files[ZONES_CLEANED_FILE].exists
       THEN BeginWrite("zones", ZONES_CLEANED_FILE, Frame(FALSE, zones))
       ELSE NoWriteHere
    /\ pc' = "clean"
    /\ UNCHANGED <<inputs, stream, run, locals, calls, history, removed>>

(* As CleanStage, but an existing cleaned_trips.csv ends the trip stages.   *)
CleanStage_skips_features ==
    /\ pc = "clean" /\ writing = NoWrite
    /\ IF ~files[CLEANED_TRIPS_FILE].exists
       THEN LET res == clean_trip_data(trips, zones)
            IN  /\ clean_df' = Frame(FALSE, res.df)
                /\ excluded_clean_df' = res.excluded_df
                /\ calls' = calls \cup {"clean_trip_data"}
                /\ BeginWrite("clean", CLEANED_TRIPS_FILE, Frame(FALSE, res.df))
                /\ pc' = "features"
       ELSE /\ clean_df' = read_csv(files[CLEANED_TRIPS_FILE])
            /\ excluded_clean_df' = <<>>
            /\ UNCHANGED calls
            /\ NoWriteHere
            /\ pc' = "merge"
    /\ UNCHANGED <<inputs, stream, run, engineered_df, excluded_engineered_df, excluded_df,
                   history, removed>>

(* Clean trips *)
CleanStage ==
    /\ pc = "clean" /\ writing = NoWrite
    /\ IF ~files[CLEANED_TRIPS_FILE].exists
       THEN LET res == clean_trip_data(trips, zones)
            IN  /\ clean_df' = Frame(FALSE, res.df)
                /\ excluded_clean_df' = res.excluded_df
                /\ calls' = calls \cup {"clean_trip_data"}
                /\ BeginWrite("clean", CLEANED_TRIPS_FILE, Frame(FALSE, res.df))
       ELSE /\ clean_df' = read_csv(files[CLEANED_TRIPS_FILE])
            /\ excluded_clean_df' = <<>>
            /\ UNCHANGED calls
            /\ NoWriteHere
    /\ pc' = "features"
    /\ UNCHANGED <<inputs, stream, run, engineered_df, excluded_engineered_df, excluded_df,
                   history, removed>>

(* Feature engineering *)
FeatureStage ==
    /\ pc = "features" /\ writing = NoWrite
    /\ IF ~HasFeatureColumn(clean_df)
       THEN LET res == engineer_features(clean_df.rows)
            IN  /\ engineered_df' = Frame(TRUE, res.df)
                /\ excluded_engineered_df' = res.excluded_df
                /\ calls' = calls \cup {"engineer_features"}
                /\ BeginWrite("features", CLEANED_TRIPS_FILE, Frame(TRUE, res.df))
       ELSE /\ engineered_df' = clean_df
            /\ excluded_engineered_df' = <<>>
            /\ UNCHANGED calls
            /\ NoWriteHere
    /\ pc' = "merge"
    /\ UNCHANGED <<inputs, stream, run, clean_df, excluded_clean_df, excluded_df,
                   history, removed>>

(* Merge and save excluded records *)
MergeStage ==
    /\ pc = "merge" /\ writing = NoWrite
    /\ LET res == merge_exclude_records(excluded_clean_df, excluded_engineered_df)
       IN  /\ excluded_df' = res
           /\ IF ~res.is_none /\ res.rows # <<>>
              THEN BeginWrite("merge", EXCLUDED_FILE, Frame(FALSE, res.rows))
              ELSE NoWriteHere
    /\ excluded_clean_df' = stamp(excluded_clean_df, "cleaning")
    /\ excluded_engineered_df' = stamp(excluded_engineered_df, "feature_engineering")
    /\ pc' = "finish"
    /\ UNCHANGED <<inputs, stream, run, clean_df, engineered_df, calls, history, removed>>

(* The writer returns: the artifact is whole. *)
FinishWrite ==
    /\ writing # NoWrite
    /\ files' = [files EXCEPT ![writing] = Written(pending)]
    /\ writing' = NoWrite
    /\ pending' = NoFrame
    /\ UNCHANGED <<inputs, stream, pc, run, locals, writes, calls, history, removed>>

(* DATA PIPELINE FINISHED *)
Finish ==
    /\ pc = "finish" /\ writing = NoWrite
    /\ pc' = "DONE"
    /\ UNCHANGED <<inputs, stream, run, files, writing, pending, locals, writes, calls,
                   history, removed>>

(* The writer raises (disk full, process killed) part way: what it wrote   *)
(* so far stays at the artifact's path and the run ends.                   *)
WriteFails ==
    /\ writing # NoWrite
    /\ \E k \in 0..Len(pending.rows) :
        /\ k < Len(pending.rows) \/ k = 0
        /\ files' = [files EXCEPT ![writing] = Truncated(pending, k)]
    /\ writing' = NoWrite
    /\ pending' = NoFrame
    /\ pc' = "FAILED"
    /\ UNCHANGED <<inputs, stream, run, locals, writes, calls, history, removed>>

(* The run is interrupted between two writes. *)
Interrupt ==
    /\ pc \in Running /\ writing = NoWrite
    /\ pc' = "FAILED"
    /\ UNCHANGED <<inputs, stream, run, files, writing, pending, locals, writes, calls,
                   history, removed>>

(* Between two runs the caller removes an artifact to have it made anew.   *)
RemoveArtifact ==
    /\ pc \in {"DONE", "FAILED"}
    /\ run < MaxRuns
    /\ \E a \in Artifacts :
        /\ files[a].exists
        /\ files' = [files EXCEPT ![a] = Absent]
    /\ removed' = TRUE
    /\ UNCHANGED <<inputs, stream, pc, run, writing, pending, locals, writes, calls, history>>

Stages ==
    \/ GeoStage
    \/ ZonesStage
    \/ CleanStage
    \/ FeatureStage
    \/ MergeStage
    \/ FinishWrite
    \/ Finish

NextFirstRun == FirstRun \/ Stages

SpecFirstRun == InitFirstRun /\ [][NextFirstRun]_vars

(* cleaned_data/ as earlier runs on the same inputs can have left it, whole *)
(* or in part: each artifact absent or complete; cleaned_trips.csv, when    *)
(* present, as the cleaning stage or as the feature stage wrote it.         *)
ExistingFiles(trips_df, zones_df) ==
    LET cleaned == clean_trip_data(trips_df, zones_df)
        engineered == engineer_features(cleaned.df)
        ledger == merge_exclude_records(cleaned.excluded_df, engineered.excluded_df)
    IN  {f \in [Artifacts -> {Absent, Written(NoFrame), Written(Frame(FALSE, zones_df)),
                              Written(Frame(FALSE, cleaned.df)),
                              Written(Frame(TRUE, engineered.df)),
                              Written(Frame(FALSE, ledger.rows))}] :
            /\ f[ZONES_GEO_FILE] \in {Absent, Written(NoFrame)}
            /\ f[ZONES_CLEANED_FILE] \in {Absent, Written(Frame(FALSE, zones_df))}
            /\ f[CLEANED_TRIPS_FILE] \in {Absent, Written(Frame(FALSE, cleaned.df)),
                                          Written(Frame(TRUE, engineered.df))}
            /\ f[EXCLUDED_FILE] \in {Absent, Written(Frame(FALSE, ledger.rows))}
            /\ f[EXCLUDED_FILE].exists => ~ledger.is_none}

InitAnyArtifacts ==
    /\ \E s \in SampleFrames : parquet = ParquetFile(Numbered(s))
    /\ trips = <<>>
    /\ zones \in ZoneTables
    /\ files \in ExistingFiles(load_trip_data(parquet), zones)
    /\ NotStarted
    /\ NoBackend

(* The control of a run moves on: the write under way returns, or the run   *)
(* goes from where it is to another place.  Every step of a run is such a  *)
(* step, and one is possible exactly when a step of the run is.            *)
RunAdvances ==
    \/ writing # NoWrite /\ writing' = NoWrite /\ pc' = pc
    \/ /\ writing = NoWrite /\ pc \notin {"DONE", "FAILED"}
       /\ \E p \in Running \cup Idle : p # pc /\ pc' = p
       /\ writing' \in Artifacts \cup {NoWrite}

(* One run from any set of artifacts, no write failing; run_pipeline is one *)
(* synchronous call that goes on until it returns.                         *)
SpecAnyArtifacts ==
    InitAnyArtifacts /\ [][NextFirstRun]_vars /\ WF_<<pc, writing>>(RunAdvances)

(* A row of a cleaned_trips.csv without feature columns. *)
EnrichedTrip ==
    [BaseTrip EXCEPT !.pickup_borough = Some("Ewr"), !.pickup_zone = Some("Newark Airport"),
                     !.dropoff_borough = Some("Ewr"), !.dropoff_zone = Some("Newark Airport")]

(* Rows of a cleaned_trips.csv that run_pipeline finds and hands to         *)
(* engineer_features: any duration, distance and amount.                   *)
GivenRows ==
    {[EnrichedTrip EXCEPT !.tpep_pickup_datetime = Some(p), !.trip_distance = Some(d),
                          !.total_amount = Some(a)] :
        p \in {0, 2, 3}, d \in {0, 5, 6}, a \in {-1, 0, 8}}

(* One run that finds cleaned_data/ with a cleaned_trips.csv, written      *)
(* without feature columns, of up to MaxTrips rows.                        *)
InitGivenCleaned ==
    /\ parquet = <<>>
    /\ trips = <<>>
    /\ zones = ZoneLookup
    /\ \E n \in 1..MaxTrips : \E s \in [1..n -> GivenRows] : \E ledger \in BOOLEAN :
        files = [a \in Artifacts |->
                    IF a = CLEANED_TRIPS_FILE THEN Written(Frame(FALSE, Numbered(s)))
                    ELSE IF a = EXCLUDED_FILE /\ ~ledger THEN Absent
                    ELSE Written(NoFrame)]
    /\ NotStarted
    /\ NoBackend

SpecGivenCleaned == InitGivenCleaned /\ [][NextFirstRun]_vars

(* The run is interrupted after cleaned_trips.csv has been written whole   *)
(* by this or an earlier run, and before DATA PIPELINE FINISHED.           *)
InterruptAfterClean ==
    /\ pc \in {"features", "merge", "finish"}
    /\ files[CLEANED_TRIPS_FILE].complete
    /\ Interrupt

(* Runs on the same inputs, interrupted only so. *)
NextResumed == StartRun \/ Stages \/ InterruptAfterClean

SpecResumed == Init /\ [][NextResumed]_vars

Next == StartRun \/ Stages \/ WriteFails \/ Interrupt \/ RemoveArtifact

Spec == Init /\ [][Next]_vars

-----------------------------------------------------------------------------
(* backend: clean() of clean_data.py and the load into the database *)

pipeline == <<parquet, trips, zones, pc, run, files, writing, pending, locals, writes, calls,
              history, removed>>

(* A trip of 2.0 miles in 360 s from (40.75, -73.99) to (40.76, -73.97),   *)
(* picked up on a Monday at 08:00:00, fare 8.00.                           *)
BaseRow ==
    [row |-> 0,
     pickup_datetime |-> Num(R(28800)), dropoff_datetime |-> Num(R(29160)),
     pickup_latitude |-> Num(<<4075, 100>>), pickup_longitude |-> Num(<<-7399, 100>>),
     dropoff_latitude |-> Num(<<4076, 100>>), dropoff_longitude |-> Num(<<-7397, 100>>),
     trip_distance |-> Num(R(2)), fare_amount |-> Num(R(8)), tip_amount |-> Num(R(0)),
     passenger_count |-> Num(R(1))]

RowCellValues ==
    ({"pickup_datetime"} \X {Text, None, Num(R(29160)), Num(R(5 * SecondsPerDay + 28800))})
    \cup ({"dropoff_datetime"} \X {Text})
    \cup ({"pickup_latitude"} \X {Text, None, AbsentCell, Num(R(0))})
    \cup ({"dropoff_longitude"} \X {Text, Num(<<-7370, 100>>), Num(<<-7399, 100>>)})
    \cup ({"trip_distance"} \X {Text, None, Num(R(0)), Num(<<1, 2>>), Num(R(-1)), Num(R(5))})
    \cup ({"fare_amount"} \X {Text, None, Num(R(0))})
    \cup ({"tip_amount"} \X {Text})
    \cup ({"passenger_count"} \X {Text, AbsentCell})

(* A trip of 0.5 miles that ends where it began. *)
RoundTrip ==
    [BaseRow EXCEPT !.dropoff_latitude = BaseRow.pickup_latitude,
                    !.dropoff_longitude = BaseRow.pickup_longitude,
                    !.trip_distance = Num(<<1, 2>>)]

(* Pickup times, in minutes from Monday 00:00: Monday 07:00, 09:59, 10:00, *)
(* 16:30, 19:00, and Saturday 08:00.                                       *)
PickupMinutes == {420, 599, 600, 990, 1140, 5 * MinutesPerDay + 480}

(* The base row picked up at second t. *)
RowAt(t) ==
    [BaseRow EXCEPT !.pickup_datetime = Num(R(t)), !.dropoff_datetime = Num(R(t + 360))]

(* Rows that differ from BaseRow in at most one cell, the round trip, and  *)
(* the base row at other times of the week.                                *)
RawRows ==
    {BaseRow, RoundTrip} \cup {[BaseRow EXCEPT ![cv[1]] = cv[2]] : cv \in RowCellValues}
        \cup {RowAt(t * 60) : t \in PickupMinutes}

(* A trip of 2 km in 6 minutes, total and fare 8.00. *)
ScenarioTrip ==
    [BaseTrip EXCEPT !.tpep_dropoff_datetime = Some(6), !.trip_distance = Some(2)]

(* The scenario trip picked up at minute t. *)
TripAt(t) ==
    [ScenarioTrip EXCEPT !.tpep_pickup_datetime = Some(t),
                         !.tpep_dropoff_datetime = Some(t + 6)]

StoreFrames ==
    SampleFrames \cup {<<ScenarioTrip>>, <<ScenarioTrip, BaseTrip>>}
        \cup {<<TripAt(t)>> : t \in PickupMinutes}

(* A row of data/cleaned_data.csv as the streaming cleaner writes it. *)
BaseCsvRow == DictReaderCleaned(<<calculate_features(BaseRow).row>>)[1]

(* A row in the columns of the data pipeline, with a pickup time that no   *)
(* format parses.                                                          *)
UnreadableTimeRow ==
    [row |-> 0,
     tpep_pickup_datetime |-> Text, tpep_dropoff_datetime |-> Num(R(6)),
     trip_distance |-> Num(R(2)), fare_amount |-> Num(R(8)),
     trip_duration_minutes |-> Num(R(6)),
     average_speed_kmh |-> Num(R(20)), revenue_per_km |-> Num(R(4))]

(* Rows of a csv given to load_cleaned_data: well formed; with a number or *)
(* a time that cannot be parsed; cut short; with empty and \N cells next   *)
(* to another spelling of the column.                                      *)
CsvRows ==
    {BaseCsvRow,
     [BaseCsvRow EXCEPT !.fare_amount = Text],
     [BaseCsvRow EXCEPT !.pickup_datetime = Text],
     UnreadableTimeRow,
     [BaseCsvRow EXCEPT !.trip_efficiency = None, !.is_peak_hour = None],
     [BaseCsvRow EXCEPT !.fare_amount = SentinelN, !.haversine_km = Empty]
        @@ [fare |-> Num(R(9)), haversine_distance_km |-> Text],
     [BaseCsvRow EXCEPT !.avg_speed_kmh = Num(R(30))]
        @@ [average_speed_kmh |-> Num(R(20))]}

InitStore ==
    /\ path \in {"bulk", "streaming", "csv"}
    /\ CASE path = "bulk" ->
                /\ \E s \in StoreFrames : parquet = ParquetFile(Numbered(s))
                /\ raw_rows = <<>>
                /\ csv_file = NoFile /\ rejects = {}
         [] path = "streaming" ->
                /\ parquet = <<>>
                /\ \E n \in 0..MaxRows : \E s \in [1..n -> RawRows] : raw_rows = Numbered(s)
                /\ csv_file = NoFile /\ rejects = {}
         [] OTHER ->
                /\ parquet = <<>>
                /\ raw_rows = <<>>
                /\ \/ csv_file = NoFile /\ rejects = {}
                   \/ \E n \in 0..MaxCsvRows : \E s \in [1..n -> CsvRows] :
                        /\ csv_file = [exists |-> TRUE, rows |-> Numbered(s)]
                        /\ rejects \in {{}} \cup {{k} : k \in 1..n}
    /\ trips = <<>>
    /\ zones = ZoneLookup
    /\ InitRun
    /\ BackendIdle

(* The data pipeline is run to make the csv the database is loaded from.   *)
BulkRun == path = "bulk" /\ FirstRun

(* clean() opens the raw csv and the output csv and writes the header.     *)
OpenFiles ==
    /\ path = "streaming" /\ spc = "idle"
    /\ spc' = "cleaning"
    /\ UNCHANGED <<pipeline, path, raw_rows, total_rows, valid_rows, out_rows, log,
                   db_trips, loader, web>>

(* One turn of the loop of clean(). *)
ReadRow ==
    /\ spc = "cleaning" /\ total_rows < Len(raw_rows)
    /\ \E res \in {calculate_features(raw_rows[total_rows + 1])} :
        /\ total_rows' = total_rows + 1
        /\ out_rows' = IF res.none THEN out_rows ELSE Append(out_rows, res.row)
        /\ valid_rows' = IF res.none THEN valid_rows ELSE valid_rows + 1
        /\ log' = log
                  \o [k \in DOMAIN res.log |-> <<res.log[k], total_rows + 1>>]
                  \o (IF (total_rows + 1) % 1000 = 0 THEN << <<"INFO", 0>> >> ELSE <<>>)
    /\ UNCHANGED <<pipeline, path, raw_rows, spc, db_trips, loader, web>>

(* The summary after the loop: valid_rows / total_rows raises for an empty *)
(* file, which clean() logs as an error of the file and returns 1.         *)
Summary ==
    /\ spc = "cleaning" /\ total_rows = Len(raw_rows)
    /\ IF total_rows = 0
       THEN /\ log' = log \o << <<"INFO", 0>>, <<"ERROR", 0>> >>
            /\ spc' = "returned 1"
       ELSE /\ log' = log \o << <<"INFO", 0>>, <<"INFO", 0>> >>
            /\ spc' = "returned 0"
    /\ UNCHANGED <<pipeline, path, raw_rows, total_rows, valid_rows, out_rows, db_trips,
                   loader, web>>

cleaner == <<path, raw_rows, total_rows, valid_rows, out_rows, log>>

(* load_cleaned_data(csv_path) up to the loop: False when there is no file *)
(* at csv_path, else BEGIN TRANSACTION and the file is opened.             *)
BeginLoad(file) ==
    /\ csv_file' = file
    /\ IF ~file.exists
       THEN /\ db_log' = Append(db_log, <<"ERROR", 0>>)
            /\ db_ret' = "False"
            /\ spc' = "loaded"
       ELSE /\ spc' = "loading"
            /\ UNCHANGED <<db_log, db_ret>>
    /\ UNCHANGED <<pipeline, web, cleaner, db_trips, rejects, row_i, committed>>

(* load_cleaned_data on the csv of the streaming cleaner. *)
LoadStreaming ==
    /\ spc \in {"returned 0", "returned 1"}
    /\ BeginLoad([exists |-> TRUE, rows |-> DictReaderCleaned(out_rows)])

(* load_cleaned_data on cleaned_trips.csv of the data pipeline. *)
LoadBulk ==
    /\ path = "bulk" /\ pc = "DONE" /\ spc = "idle"
    /\ BeginLoad([exists |-> files[CLEANED_TRIPS_FILE].exists,
                  rows |-> DictReaderRows(files[CLEANED_TRIPS_FILE].rows)])

(* load_cleaned_data on a csv that is there or not. *)
LoadCsv ==
    /\ path = "csv" /\ spc = "idle"
    /\ BeginLoad(csv_file)

(* One turn of the loop of load_cleaned_data: the row is skipped with a    *)
(* warning when its fields raise AttributeError; the insert the database   *)
(* rejects raises sqlite3.Error, which ends the call through the outer     *)
(* except: rollback, error logged, False; else the row is inserted.        *)
InsertRow ==
    /\ spc = "loading" /\ row_i < Len(csv_file.rows)
    /\ row_i' = row_i + 1
    /\ LET i == row_i + 1
           row == csv_file.rows[i]
       IN  IF RaisesAttributeError(row)
           THEN /\ db_log' = Append(db_log, <<"WARNING", i>>)
                /\ UNCHANGED <<db_trips, db_ret, spc>>
           ELSE IF i \in rejects
           THEN /\ db_trips' = rollback(db_trips, committed)
                /\ db_log' = Append(db_log, <<"ERROR", 0>>)
                /\ db_ret' = "False"
                /\ spc' = "loaded"
           ELSE /\ db_trips' = Append(db_trips, row_data(row))
                /\ db_log' = IF i % 1000 = 0 THEN Append(db_log, <<"INFO", 0>>) ELSE db_log
                /\ UNCHANGED <<db_ret, spc>>
    /\ UNCHANGED <<pipeline, web, cleaner, csv_file, rejects, committed>>

(* After the loop: commit, and True is returned. *)
Commit ==
    /\ spc = "loading" /\ row_i = Len(csv_file.rows)
    /\ committed' = db_trips
    /\ db_log' = Append(db_log, <<"INFO", 0>>)
    /\ db_ret' = "True"
    /\ spc' = "loaded"
    /\ UNCHANGED <<pipeline, web, cleaner, db_trips, csv_file, rejects, row_i>>

NextStore ==
    \/ BulkRun
    \/ Stages
    \/ OpenFiles
    \/ ReadRow
    \/ Summary
    \/ LoadStreaming
    \/ LoadBulk
    \/ LoadCsv
    \/ InsertRow
    \/ Commit

SpecStore == InitStore /\ [][NextStore]_vars

-----------------------------------------------------------------------------
(* backend/algorithms.py *)

(* The longest list handed to manual_merge_sort_trips. *)
MaxSortLen == 4

(* Values of a trip as sqlite3 hands them over: None, an integer ("int"),  *)
(* a float ("num", kept as a quotient) or a text ("str", its character     *)
(* codes).                                                                 *)
Whole(n) == [k |-> "int", v |-> R(n)]

Str(s) == [k |-> "str", v |-> s]

NUMERIC_SORT_FIELDS ==
    {"fare_amount", "trip_distance_km", "tip_amount", "avg_speed_kmh", "trip_duration_sec",
     "passenger_count"}

(* The characters of a natural number written out. *)
RECURSIVE Digits(_)
Digits(n) == IF n < 10 THEN <<48 + n>> ELSE Append(Digits(n \div 10), 48 + (n % 10))

(* The number a string of digits writes. *)
RECURSIVE DigitsValue(_)
DigitsValue(s) ==
    IF s = <<>> THEN 0 ELSE 10 * DigitsValue(SubSeq(s, 1, Len(s) - 1)) + (s[Len(s)] - 48)

IsDigits(s) == s # <<>> /\ \A p \in DOMAIN s : s[p] \in 48..57

(* str(raw) of a value other than None: a text is itself, an integer its   *)
(* digits, a float of whole value its digits and ".0".                     *)
str(raw) ==
    CASE raw.k = "str" -> raw.v
      [] raw.k = "int" ->
            IF raw.v[1] < 0 THEN <<45>> \o Digits(-raw.v[1]) ELSE Digits(raw.v[1])
      [] OTHER ->
            LET w == raw.v[1] \div raw.v[2]
            IN  (IF w < 0 THEN <<45>> \o Digits(-w) ELSE Digits(w)) \o <<46, 48>>

(* _to_numeric: 0.0 for None and for what float() rejects, else the float; *)
(* of the texts, the strings of digits are the ones float() reads here.    *)
to_numeric(value) ==
    CASE value.k = "none" -> R(0)
      [] value.k = "str" -> IF IsDigits(value.v) THEN R(DigitsValue(value.v)) ELSE R(0)
      [] OTHER -> value.v

(* trip.get(sort_field) *)
trip_get(trip, field) == IF field \in DOMAIN trip THEN trip[field] ELSE None

(* _build_sort_value: a float for the numeric sort fields, else a string.  *)
build_sort_value(trip, field) ==
    LET raw == trip_get(trip, field)
    IN  IF field \in NUMERIC_SORT_FIELDS THEN [k |-> "float", v |-> to_numeric(raw)]
        ELSE IF raw.k = "none" THEN [k |-> "str", v |-> <<>>]
        ELSE [k |-> "str", v |-> str(raw)]

(* left <= right of two strings. *)
RECURSIVE StrLe(_, _)
StrLe(a, b) ==
    IF a = <<>> THEN TRUE
    ELSE IF b = <<>> THEN FALSE
    ELSE IF a[1] # b[1] THEN a[1] < b[1]
    ELSE StrLe(Tail(a), Tail(b))

(* left <= right of two sort values of one kind. *)
PyLe(left, right) ==
    IF left.k = "float" THEN RLe(left.v, right.v) ELSE StrLe(left.v, right.v)

compare_values_strict(left, right, asc) ==
    IF asc THEN ~PyLe(right, left) ELSE ~PyLe(left, right)

compare_values(left, right, asc) ==
    IF asc THEN PyLe(left, right) ELSE PyLe(right, left)

(* The three inner loops of one merge: lists holds the list objects by     *)
(* name, source and target name two of them; positions count from 0.       *)
RECURSIVE merge(_, _, _, _, _, _, _, _, _, _)
merge(lists, source, target, i, mid, j, right, k, field, asc) ==
    IF i < mid /\ j < right
    THEN IF compare_values(build_sort_value(lists[source][i + 1], field),
                           build_sort_value(lists[source][j + 1], field), asc)
         THEN merge([lists EXCEPT ![target][k + 1] = lists[source][i + 1]],
                    source, target, i + 1, mid, j, right, k + 1, field, asc)
         ELSE merge([lists EXCEPT ![target][k + 1] = lists[source][j + 1]],
                    source, target, i, mid, j + 1, right, k + 1, field, asc)
    ELSE IF i < mid
    THEN merge([lists EXCEPT ![target][k + 1] = lists[source][i + 1]],
               source, target, i + 1, mid, j, right, k + 1, field, asc)
    ELSE IF j < right
    THEN merge([lists EXCEPT ![target][k + 1] = lists[source][j + 1]],
               source, target, i, mid, j + 1, right, k + 1, field, asc)
    ELSE lists

(* while left < size: one merge of the runs at left and left + width.      *)
RECURSIVE merge_pass(_, _, _, _, _, _, _, _)
merge_pass(lists, source, target, left, width, size, field, asc) ==
    IF left < size
    THEN LET mid == IF left + width > size THEN size ELSE left + width
             right == IF left + width * 2 > size THEN size ELSE left + width * 2
         IN  merge_pass(merge(lists, source, target, left, mid, mid, right, left, field, asc),
                        source, target, left + width * 2, width, size, field, asc)
    ELSE lists

(* while width < size: a pass, then source and target change places.       *)
RECURSIVE merge_passes(_, _, _, _, _, _, _)
merge_passes(lists, source, target, width, size, field, asc) ==
    IF width < size
    THEN merge_passes(merge_pass(lists, source, target, 0, width, size, field, asc),
                      target, source, width * 2, size, field, asc)
    ELSE [called |-> TRUE, ret |-> source, lists |-> lists]

(* manual_merge_sort_trips: the list objects are "trips" (the argument),   *)
(* "source" (list(trips)) and "target" ([None] * size); ret names the one  *)
(* that is returned.                                                       *)
manual_merge_sort_trips(trips_arg, field, asc) ==
    LET size == Len(trips_arg)
    IN  IF size <= 1
        THEN [called |-> TRUE, ret |-> "source",
              lists |-> [trips |-> trips_arg, source |-> trips_arg]]
        ELSE merge_passes([trips |-> trips_arg, source |-> trips_arg,
                           target |-> [p \in 1..size |-> None]],
                          "source", "target", 1, size, field, asc)

(* Rows of the table trips as a query returns them. *)
SortTrips ==
    {[id |-> None, fare_amount |-> Num(R(9)), pickup_datetime |-> Str(<<48, 57>>),
      payment_type_id |-> Whole(10)],
     [id |-> None, fare_amount |-> Num(R(10)), pickup_datetime |-> Str(<<49, 48>>),
      payment_type_id |-> Whole(9)],
     [id |-> None, fare_amount |-> None, pickup_datetime |-> None,
      payment_type_id |-> None],
     [id |-> None, fare_amount |-> Num(R(0)), pickup_datetime |-> Str(<<48, 57>>),
      payment_type_id |-> Whole(9)]}

SortFields == {"fare_amount", "pickup_datetime", "payment_type_id", "tip_amount", "id"}

(* all_trips: the rows in the order of the query, each with its id.        *)
WithIds(s) == [p \in DOMAIN s |-> [s[p] EXCEPT !.id = Whole(p)]]

InitSort ==
    /\ \E n \in 0..MaxSortLen : \E s \in [1..n -> SortTrips] : all_trips = WithIds(s)
    /\ sort_field \in SortFields
    /\ ascending \in BOOLEAN
    /\ sort_result = NotSorted
    /\ CacheIdle
    /\ parquet = <<>>
    /\ trips = <<>>
    /\ zones = ZoneLookup
    /\ InitRun
    /\ path = "none"
    /\ raw_rows = <<>>
    /\ csv_file = NoFile
    /\ rejects = {}
    /\ spc = "idle"
    /\ total_rows = 0
    /\ valid_rows = 0
    /\ out_rows = <<>>
    /\ log = <<>>
    /\ db_trips = <<>>
    /\ row_i = 0
    /\ committed = <<>>
    /\ db_log = <<>>
    /\ db_ret = "none"

(* query_trips_payload with custom_sort: the rows are sorted.              *)
CustomSort ==
    /\ ~sort_result.called
    /\ sort_result' = manual_merge_sort_trips(all_trips, sort_field, ascending)
    /\ UNCHANGED <<pipeline, cleaner, spc, db_trips, loader, caching, all_trips, sort_field,
                   ascending>>

NextSort == CustomSort

SpecSort == InitSort /\ [][NextSort]_vars

-----------------------------------------------------------------------------
(* backend/api.py: the response cache *)

(* time.time() goes up to MaxClock, and MaxSets calls of _cache_set are    *)
(* made.                                                                   *)
MaxClock == 3

MaxSets == 2

(* ttl_seconds of the endpoint that makes the key, in units of 30 s. *)
ttl_seconds(key) == IF key = "trips" THEN 1 ELSE 2

(* expires_at <= now *)
expired_after(expires_at, now) == expires_at < now

expired(expires_at, now) == expires_at <= now

InitCache ==
    /\ parquet = <<>>
    /\ trips = <<>>
    /\ zones = ZoneLookup
    /\ InitRun
    /\ NoBackend

Free(t) == th[t].pc \in {"idle", "got", "stored"}

NotCaching == UNCHANGED <<pipeline, cleaner, spc, db_trips, loader, sorting>>

(* Time passes. *)
Tick ==
    /\ clock < MaxClock
    /\ clock' = clock + 1
    /\ UNCHANGED <<cache, th, nsets, latest>>
    /\ NotCaching

(* _cache_get(key) up to the lock: now = time.time().                      *)
CacheGetCall(t, key) ==
    /\ Free(t)
    /\ th' = [th EXCEPT ![t] = [ThreadIdle EXCEPT !.pc = "get", !.key = key, !.now = clock]]
    /\ UNCHANGED <<cache, clock, nsets, latest>>
    /\ NotCaching

(* _cache_get(key) with the lock held: no record, None; a record expired   *)
(* at now is popped, None; else its payload. The thread keeps what it      *)
(* found, the latest completed _cache_set it could know of, the time and   *)
(* what it left under the key.                                             *)
CacheGetLocked(t) ==
    /\ th[t].pc = "get"
    /\ LET key == th[t].key
           record == cache[key]
           pops == record.has /\ expired(record.expires_at, th[t].now)
       IN  /\ cache' = IF pops THEN [cache EXCEPT ![key] = NoEntry] ELSE cache
           /\ th' = [th EXCEPT ![t].pc = "got",
                               ![t].ret = IF record.has /\ ~pops THEN record.payload ELSE 0,
                               ![t].found = record,
                               ![t].known = latest[key],
                               ![t].at = clock,
                               ![t].left = IF pops THEN NoEntry ELSE record]
    /\ UNCHANGED <<clock, nsets, latest>>
    /\ NotCaching

(* _cache_set(key, payload, ttl_seconds) up to the lock: expires_at =      *)
(* time.time() + ttl_seconds. Each call has a payload of its own.          *)
CacheSetCall(t, key) ==
    /\ Free(t)
    /\ nsets < MaxSets
    /\ nsets' = nsets + 1
    /\ th' = [th EXCEPT ![t] = [ThreadIdle EXCEPT !.pc = "set", !.key = key,
                                                  !.expires_at = clock + ttl_seconds(key),
                                                  !.payload = nsets + 1]]
    /\ UNCHANGED <<cache, clock, latest>>
    /\ NotCaching

(* _cache_set with the lock held: the record is stored. *)
CacheSetLocked(t) ==
    /\ th[t].pc = "set"
    /\ cache' = [cache EXCEPT ![th[t].key] = Entry(th[t].expires_at, th[t].payload)]
    /\ latest' = [latest EXCEPT ![th[t].key] = Entry(th[t].expires_at, th[t].payload)]
    /\ th' = [th EXCEPT ![t].pc = "stored"]
    /\ UNCHANGED <<clock, nsets>>
    /\ NotCaching

NextCache ==
    \/ Tick
    \/ \E t \in CacheThreads, key \in CacheKeys : CacheGetCall(t, key)
    \/ \E t \in CacheThreads : CacheGetLocked(t)
    \/ \E t \in CacheThreads, key \in CacheKeys : CacheSetCall(t, key)
    \/ \E t \in CacheThreads : CacheSetLocked(t)

SpecCache == InitCache /\ [][NextCache]_vars

-----------------------------------------------------------------------------
(* Vocabulary of the properties *)

(* Positions in frame df of the rows that stem from raw row i.             *)
RowsOf(df, i) == {k \in DOMAIN df : df[k].row = i}

(* ... and that carry the given exclusion reason.                          *)
Entries(df, i, reason) ==
    {k \in RowsOf(df, i) : df[k].exclusion_reason = Some(reason)}

Cleaned == "clean_trip_data" \in calls

Engineered == "engineer_features" \in calls

EssentialsPresent(t) == \A c \in essential_cols : ~IsNull(t[c])

(* The five conditions of the logical-validity filter, as the             *)
(* specification words them: a null cell satisfies none.                   *)
LogicallyInvalid(t) ==
    \/ ~IsNull(t.trip_distance) /\ Val(t.trip_distance) <= 0
    \/ ~IsNull(t.total_amount) /\ Val(t.total_amount) < 0
    \/ ~IsNull(t.fare_amount) /\ Val(t.fare_amount) < 0
    \/ ~IsNull(t.passenger_count) /\ Val(t.passenger_count) <= 0
    \/ /\ ~IsNull(t.tpep_dropoff_datetime) /\ ~IsNull(t.tpep_pickup_datetime)
       /\ Val(t.tpep_dropoff_datetime) <= Val(t.tpep_pickup_datetime)

(* Raw row i came out of the missing and logical filters: it is among the  *)
(* accepted rows or was excluded by a later filter of clean_trip_data.     *)
ReachedDuplicateFilter(i) ==
    \/ RowsOf(clean_df.rows, i) # {}
    \/ Entries(excluded_clean_df, i, "duplicate_trip") # {}
    \/ Entries(excluded_clean_df, i, "unmatched_zone_lookup") # {}

(* Raw row i came out of the duplicate filter.                             *)
Retained(i) ==
    \/ RowsOf(clean_df.rows, i) # {}
    \/ Entries(excluded_clean_df, i, "unmatched_zone_lookup") # {}

-----------------------------------------------------------------------------
(* C1: after a first full run, with unique zone location ids, every raw    *)
(* trip is either in the final engineered frame or exactly once in the     *)
(* merged exclusion ledger, never both, never neither.                     *)
C1_PartitionComplete ==
    (pc = "DONE" /\ UniqueLocationIds(zones)) =>
        \A i \in DOMAIN trips :
            LET f == Cardinality(RowsOf(engineered_df.rows, i))
                l == Cardinality(RowsOf(excluded_df.rows, i))
            IN  (f >= 1 /\ l = 0) \/ (f = 0 /\ l = 1)

C1_Witness ==
    /\ pc = "DONE" /\ UniqueLocationIds(zones)
    /\ \E i \in DOMAIN trips : RowsOf(engineered_df.rows, i) # {}
    /\ \E i \in DOMAIN trips : RowsOf(excluded_df.rows, i) # {}

-----------------------------------------------------------------------------
(* The exclusion criteria of a raw trip, read off the raw frames alone,    *)
(* in the fixed order of the filters.                                      *)
ViolatesMissing(i) == ~EssentialsPresent(trips[i])

ViolatesLogical(i) == LogicallyInvalid(trips[i])

ViolatesDuplicate(i) ==
    /\ EssentialsPresent(trips[i])
    /\ \E j \in 1..(i - 1) :
        /\ EssentialsPresent(trips[j]) /\ ~LogicallyInvalid(trips[j])
        /\ DuplicateKey(trips[j]) = DuplicateKey(trips[i])

ViolatesZoneLookup(i) ==
    \/ ~IsNull(trips[i].pulocationid)
        /\ \A k \in DOMAIN zones : zones[k].locationid # Val(trips[i].pulocationid)
    \/ ~IsNull(trips[i].dolocationid)
        /\ \A k \in DOMAIN zones : zones[k].locationid # Val(trips[i].dolocationid)

DurationOf(t) == Val(t.tpep_dropoff_datetime) - Val(t.tpep_pickup_datetime)

TimesPresent(t) == ~IsNull(t.tpep_dropoff_datetime) /\ ~IsNull(t.tpep_pickup_datetime)

ViolatesDuration(i) == TimesPresent(trips[i]) /\ DurationOf(trips[i]) <= 0

ViolatesSpeed(i) ==
    /\ TimesPresent(trips[i]) /\ ~IsNull(trips[i].trip_distance)
    /\ DurationOf(trips[i]) > 0
    /\ \/ 60 * Val(trips[i].trip_distance) <= 0
       \/ 60 * Val(trips[i].trip_distance) > MaxSpeedKmh * DurationOf(trips[i])

ViolatesRevenue(i) ==
    /\ ~IsNull(trips[i].trip_distance) /\ ~IsNull(trips[i].total_amount)
    /\ Val(trips[i].trip_distance) > 0
    /\ Val(trips[i].total_amount) <= 0

Violations(i) ==
    {r \in {"missing_essential_values", "invalid_logical_values", "duplicate_trip",
            "unmatched_zone_lookup", "invalid_trip_duration",
            "invalid_average_speed", "invalid_revenue_per_km"} :
        CASE r = "missing_essential_values" -> ViolatesMissing(i)
          [] r = "invalid_logical_values" -> ViolatesLogical(i)
          [] r = "duplicate_trip" -> ViolatesDuplicate(i)
          [] r = "unmatched_zone_lookup" -> ViolatesZoneLookup(i)
          [] r = "invalid_trip_duration" -> ViolatesDuration(i)
          [] r = "invalid_average_speed" -> ViolatesSpeed(i)
          [] OTHER -> ViolatesRevenue(i)}

FirstViolation(i) ==
    IF ViolatesMissing(i) THEN "missing_essential_values"
    ELSE IF ViolatesLogical(i) THEN "invalid_logical_values"
    ELSE IF ViolatesDuplicate(i) THEN "duplicate_trip"
    ELSE IF ViolatesZoneLookup(i) THEN "unmatched_zone_lookup"
    ELSE IF ViolatesDuration(i) THEN "invalid_trip_duration"
    ELSE IF ViolatesSpeed(i) THEN "invalid_average_speed"
    ELSE "invalid_revenue_per_km"

(* C2: a raw trip that violates more than one exclusion criterion is in    *)
(* the merged ledger with the reason of the first filter it violates.      *)
C2_FirstReasonRecorded ==
    pc = "DONE" =>
        \A i \in DOMAIN trips :
            Cardinality(Violations(i)) >= 2 =>
                /\ RowsOf(excluded_df.rows, i) # {}
                /\ \A k \in RowsOf(excluded_df.rows, i) :
                    excluded_df.rows[k].exclusion_reason = Some(FirstViolation(i))

-----------------------------------------------------------------------------
(* C3: a run that follows a finished run, with no artifact removed in      *)
(* between, writes no artifact, calls neither clean_trip_data nor          *)
(* engineer_features, and leaves every file as it found it.                *)
C3_SecondRunIsNoOp ==
    (after_done /\ ~removed) =>
        /\ writes = {}
        /\ calls = {}
        /\ files = start_files

C3_Witness ==
    /\ after_done /\ ~removed /\ pc = "DONE"
    /\ files[CLEANED_TRIPS_FILE].rows # <<>>
    /\ files[EXCLUDED_FILE].exists

-----------------------------------------------------------------------------
(* The zone record a side of an accepted row was joined to. *)
JoinedTo(z, id, borough, zone, casing) ==
    /\ Some(z.locationid) = id
    /\ zone = z.zone
    /\ borough = (IF casing THEN Title(z.borough) ELSE z.borough)

-----------------------------------------------------------------------------
StageChecking(a) ==
    CASE a = ZONES_GEO_FILE -> "geo"
      [] a = ZONES_CLEANED_FILE -> "zones"
      [] a = CLEANED_TRIPS_FILE -> "clean"
      [] OTHER -> "none"

(* C5: an artifact that a stage's existence check finds present was        *)
(* written completely.                                                     *)
C5_PresentArtifactIsWhole ==
    \A a \in Artifacts :
        (pc = StageChecking(a) /\ writing = NoWrite /\ files[a].exists)
            => files[a].complete

-----------------------------------------------------------------------------
(* Raw row i is the first, in arrival order, of the rows that reached the  *)
(* duplicate filter with its key.                                          *)
FirstOfKey(i) ==
    \A j \in 1..(i - 1) :
        ReachedDuplicateFilter(j) => DuplicateKey(trips[j]) # DuplicateKey(trips[i])

(* C6: of the rows that come out of the missing and logical filters, the   *)
(* first of each key is retained and every later row of that key is        *)
(* excluded, once, with reason duplicate_trip.                             *)
C6_FirstOfKeyRetained ==
    Cleaned =>
        \A i \in DOMAIN trips :
            ReachedDuplicateFilter(i) =>
                IF FirstOfKey(i)
                THEN Retained(i) /\ Entries(excluded_clean_df, i, "duplicate_trip") = {}
                ELSE /\ ~Retained(i)
                     /\ Cardinality(Entries(excluded_clean_df, i, "duplicate_trip")) = 1

C6_Witness ==
    /\ Cleaned
    /\ \E i, j \in DOMAIN trips :
        /\ i < j
        /\ Retained(i)
        /\ trips[i].fare_amount # trips[j].fare_amount
        /\ Entries(excluded_clean_df, j, "duplicate_trip") # {}

-----------------------------------------------------------------------------
ExactlyZero(x) == x = Some(0)

(* C7 as claimed: a trip with its essentials whose distance, fare_amount   *)
(* or total_amount is exactly 0 is excluded as invalid_logical_values.     *)
C7_ZeroDistanceOrFareInvalid ==
    Cleaned =>
        \A i \in DOMAIN trips :
            (/\ EssentialsPresent(trips[i])
             /\ \/ ExactlyZero(trips[i].trip_distance)
                \/ ExactlyZero(trips[i].fare_amount)
                \/ ExactlyZero(trips[i].total_amount))
                => Entries(excluded_clean_df, i, "invalid_logical_values") # {}

(* C7 amended: a distance of exactly 0 is excluded as                      *)
(* invalid_logical_values; a fare_amount or total_amount of exactly 0 is   *)
(* not a ground for it: such a trip gets that reason only if one of the    *)
(* five conditions of the filter holds.                                    *)
C7_ZeroDistanceInvalidZeroFareNot ==
    Cleaned =>
        \A i \in DOMAIN trips :
            EssentialsPresent(trips[i]) =>
                /\ ExactlyZero(trips[i].trip_distance)
                    => Cardinality(Entries(excluded_clean_df, i, "invalid_logical_values")) = 1
                /\ (/\ ExactlyZero(trips[i].fare_amount) \/ ExactlyZero(trips[i].total_amount)
                    /\ ~LogicallyInvalid(trips[i]))
                    => Entries(excluded_clean_df, i, "invalid_logical_values") = {}

C7_Witness ==
    /\ pc = "DONE"
    /\ \E i \in DOMAIN trips :
        /\ ExactlyZero(trips[i].trip_distance) /\ EssentialsPresent(trips[i])
        /\ Entries(excluded_df.rows, i, "invalid_logical_values") # {}
    /\ \E i \in DOMAIN trips :
        /\ ExactlyZero(trips[i].fare_amount)
        /\ RowsOf(engineered_df.rows, i) # {}

-----------------------------------------------------------------------------
(* The rows that reached the speed check carry the computed column        *)
(* average_speed_kmh, a quotient <<n, d>>; the rows excluded before it     *)
(* have no value in it.                                                    *)
SpeedChecked(r) == ~IsNull(r.average_speed_kmh)

SpeedIs(r, kmh) ==
    Val(r.average_speed_kmh)[1] = kmh * Val(r.average_speed_kmh)[2]

SpeedOutOfRange(r) ==
    \/ Val(r.average_speed_kmh)[1] <= 0
    \/ Val(r.average_speed_kmh)[1] > MaxSpeedKmh * Val(r.average_speed_kmh)[2]

-----------------------------------------------------------------------------
(* C9: a raw trip is excluded as missing_essential_values exactly when     *)
(* one of its six essential cells is null.                                 *)
C9_MissingIffEssentialNull ==
    Cleaned =>
        \A i \in DOMAIN trips :
            Entries(excluded_clean_df, i, "missing_essential_values") # {}
                <=> \E c \in essential_cols : IsNull(trips[i][c])

C9_Witness ==
    /\ Cleaned
    /\ \E i \in DOMAIN trips :
        /\ IsNull(trips[i].dolocationid)
        /\ Entries(excluded_clean_df, i, "missing_essential_values") # {}
    /\ \E i \in DOMAIN trips :
        /\ IsNull(trips[i].fare_amount) \/ IsNull(trips[i].passenger_count)
        /\ Entries(excluded_clean_df, i, "missing_essential_values") = {}

-----------------------------------------------------------------------------
(* C10: a trip with its six essentials is excluded as                      *)
(* invalid_logical_values, stage cleaning in the merged ledger, when one   *)
(* of the five conditions holds, and is passed on to the duplicate filter  *)
(* when none holds, a null passenger_count or fare_amount included.        *)
C10_LogicalFilter ==
    \A i \in DOMAIN trips :
        EssentialsPresent(trips[i]) =>
            /\ Cleaned =>
                IF LogicallyInvalid(trips[i])
                THEN /\ Entries(excluded_clean_df, i, "invalid_logical_values") # {}
                     /\ ~ReachedDuplicateFilter(i)
                ELSE /\ Entries(excluded_clean_df, i, "invalid_logical_values") = {}
                     /\ ReachedDuplicateFilter(i)
            /\ (pc = "DONE" /\ LogicallyInvalid(trips[i])) =>
                \E k \in Entries(excluded_df.rows, i, "invalid_logical_values") :
                    excluded_df.rows[k].pipeline_stage = Some("cleaning")

-----------------------------------------------------------------------------
(* Raw row i is in the frame that leaves the missing, logical and          *)
(* duplicate filters and enters the zone join.                             *)
SurvivesDuplicateFilter(i) == RowsOf(after_duplicates(trips), i) # {}

(* C11: a trip that leaves the three filters and whose pulocationid or     *)
(* dolocationid is the id of no zone record is excluded as                 *)
(* unmatched_zone_lookup and is not accepted; every accepted row has a     *)
(* pickup_zone and a dropoff_zone.                                         *)
C11_UnmatchedExcluded ==
    Cleaned =>
        /\ \A i \in DOMAIN trips :
            (SurvivesDuplicateFilter(i) /\ ViolatesZoneLookup(i)) =>
                /\ Entries(excluded_clean_df, i, "unmatched_zone_lookup") # {}
                /\ RowsOf(clean_df.rows, i) = {}
        /\ \A k \in DOMAIN clean_df.rows :
            ~IsNull(clean_df.rows[k].pickup_zone) /\ ~IsNull(clean_df.rows[k].dropoff_zone)

C11_Witness ==
    /\ Cleaned
    /\ clean_df.rows # <<>>
    /\ \E i \in DOMAIN trips :
        /\ SurvivesDuplicateFilter(i)
        /\ trips[i].pulocationid = Some(1) /\ trips[i].dolocationid = Some(9)
        /\ Entries(excluded_clean_df, i, "unmatched_zone_lookup") # {}

-----------------------------------------------------------------------------
Merged == pc \in {"finish", "DONE"}

(* C12: once run_pipeline has merged, the merged ledger holds the entries  *)
(* of the cleaning batch, in their order and stamped cleaning, followed by *)
(* the entries of the feature batch, in their order and stamped            *)
(* feature_engineering, and the ledger artifact is written; when both      *)
(* batches are empty the result is None and no ledger artifact is written. *)
C12_MergeStampsInOrder ==
    Merged =>
        LET c == excluded_clean_df
            e == excluded_engineered_df
            m == excluded_df.rows
        IN  IF c = <<>> /\ e = <<>>
            THEN excluded_df.is_none /\ <<"merge", EXCLUDED_FILE>> \notin writes
            ELSE /\ ~excluded_df.is_none
                 /\ Len(m) = Len(c) + Len(e)
                 /\ \A k \in DOMAIN c :
                     /\ m[k].pipeline_stage = Some("cleaning")
                     /\ m[k].row = c[k].row
                     /\ m[k].exclusion_reason = c[k].exclusion_reason
                 /\ \A k \in DOMAIN e :
                     /\ m[Len(c) + k].pipeline_stage = Some("feature_engineering")
                     /\ m[Len(c) + k].row = e[k].row
                     /\ m[Len(c) + k].exclusion_reason = e[k].exclusion_reason
                 /\ <<"merge", EXCLUDED_FILE>> \in writes

C12_Witness ==
    /\ pc = "DONE"
    /\ excluded_clean_df # <<>> /\ excluded_engineered_df # <<>>
    /\ files[EXCLUDED_FILE].complete
    /\ files[EXCLUDED_FILE].rows = excluded_df.rows

C12_WitnessNone ==
    /\ pc = "DONE"
    /\ excluded_df.is_none
    /\ ~files[EXCLUDED_FILE].exists

-----------------------------------------------------------------------------
(* The order of the stages of run_pipeline; the geojson and the csv of the *)
(* zones make up the zones stage.                                          *)
StageOrder ==
    {<<"NOT_STARTED", "geo">>, <<"geo", "zones">>, <<"zones", "clean">>,
     <<"clean", "features">>, <<"features", "merge">>, <<"merge", "finish">>,
     <<"finish", "DONE">>}

(* C13: from any set of artifacts and with no write failing, a run goes    *)
(* through zones, trip cleaning, feature engineering and the merge in that *)
(* order, each once, reaches DONE and stays there.                         *)
C13_StagesInOrderThenDone ==
    /\ [][pc' # pc => <<pc, pc'>> \in StageOrder]_vars
    /\ <>[](pc = "DONE")

C13_Witness ==
    /\ pc = "DONE"
    /\ start_files[ZONES_CLEANED_FILE].exists
    /\ ~start_files[CLEANED_TRIPS_FILE].exists
    /\ "clean_trip_data" \in calls
    /\ <<"zones", ZONES_CLEANED_FILE>> \notin writes

-----------------------------------------------------------------------------
(* The stage an artifact is the output of, and what the stage computes.    *)
WritersOf(a) == {w \in writes : w[2] = a}

(* C14: in a run from any set of artifacts, an artifact that exists when   *)
(* the run starts is not written by the run, and with cleaned_trips.csv    *)
(* present neither clean_trip_data nor engineer_features is called.        *)
C14_ExistingArtifactKept ==
    pc # "NOT_STARTED" =>
        /\ \A a \in Artifacts : start_files[a].exists => WritersOf(a) = {}
        /\ start_files[CLEANED_TRIPS_FILE].exists => calls = {}

-----------------------------------------------------------------------------
(* C15: within one run no artifact is written by two different stages.     *)
C15_OneWriterPerArtifact ==
    \A a \in Artifacts : Cardinality({w[1] : w \in WritersOf(a)}) <= 1

-----------------------------------------------------------------------------
(* The features of a row of the data pipeline are the quotients named.     *)
BulkQuotients(r) ==
    /\ REq(Val(r.average_speed_kmh),
           RDiv(R(Val(r.trip_distance)), <<DurationOf(r), 60>>))
    /\ REq(RMul(Val(r.revenue_per_km), R(Val(r.trip_distance))), R(Val(r.total_amount)))

(* ... and those of a row of the streaming cleaner: speed times the hours  *)
(* is the distance, fare per km times the distance is the fare.            *)
StreamQuotients(r) ==
    /\ REq(RMul(Val(r.avg_speed_kmh), R(Val(r.trip_duration_sec))),
           RMul(Val(r.trip_distance_km), R(SecondsPerHour)))
    /\ REq(RMul(Val(r.fare_per_km), Val(r.trip_distance_km)), Val(r.fare_amount))

IsScenario(r) ==
    /\ r.trip_distance = Some(2) /\ DurationOf(r) = 6 /\ r.total_amount = Some(8)

(* C16: every row the data pipeline's engineer_features accepts, and every *)
(* row the streaming calculate_features returns, has its speed equal to    *)
(* distance over hours and its revenue per km equal to the amount over the *)
(* distance; the trip of 2 km in 360 s for 8.00 is accepted with           *)
(* 20 km/h and 4 per km.                                                   *)
C16_FeaturesAreQuotients ==
    /\ Engineered =>
        /\ \A k \in DOMAIN engineered_df.rows : BulkQuotients(engineered_df.rows[k])
        /\ \A i \in DOMAIN trips :
            IsScenario(trips[i]) =>
                \E k \in RowsOf(engineered_df.rows, i) :
                    /\ REq(Val(engineered_df.rows[k].average_speed_kmh), R(20))
                    /\ REq(Val(engineered_df.rows[k].revenue_per_km), R(4))
    /\ \A k \in DOMAIN out_rows : StreamQuotients(out_rows[k])

C16_BulkFeaturesAreQuotients ==
    Engineered =>
        /\ \A k \in DOMAIN engineered_df.rows : BulkQuotients(engineered_df.rows[k])
        /\ \A i \in DOMAIN trips :
            IsScenario(trips[i]) =>
                \E k \in RowsOf(engineered_df.rows, i) :
                    /\ REq(Val(engineered_df.rows[k].average_speed_kmh), R(20))
                    /\ REq(Val(engineered_df.rows[k].revenue_per_km), R(4))

-----------------------------------------------------------------------------
Loaded == spc = "loaded"

(* The distance in miles that the raw record of a stored trip reported.    *)
ReportedMiles(d) ==
    IF path = "bulk" THEN R(Val(trips[d.row].trip_distance))
    ELSE raw_rows[d.row].trip_distance.v

ReportsMiles(d) ==
    CASE path = "bulk" -> ~IsNull(trips[d.row].trip_distance)
      [] path = "streaming" -> raw_rows[d.row].trip_distance.k = "num"
      [] OTHER -> FALSE

(* The stored speed was computed from the stored distance in km.           *)
SpeedFromStoredKm(d) ==
    REq(RMul(Val(d.avg_speed_kmh), R(Val(d.trip_duration_sec))),
        RMul(Val(d.trip_distance_km), R(SecondsPerHour)))

(* C17: on both paths to the trips table, the stored distance of a trip    *)
(* reported in miles is the reported distance times 1.60934, once, and the *)
(* stored average speed was computed from that converted distance.         *)
C17_ConvertedOnceBeforeUse ==
    Loaded =>
        \A k \in DOMAIN db_trips :
            ReportsMiles(db_trips[k]) =>
                /\ REq(Val(db_trips[k].trip_distance_km),
                       RMul(ReportedMiles(db_trips[k]), MILES_TO_KM))
                /\ SpeedFromStoredKm(db_trips[k])

(* The streaming half of C17. *)
C17_StreamingConvertedOnceBeforeUse ==
    (Loaded /\ path = "streaming") => C17_ConvertedOnceBeforeUse

(* The bulk path converts once, in the loader. *)
C17_BulkConvertedOnce ==
    (Loaded /\ path = "bulk") =>
        \A k \in DOMAIN db_trips :
            REq(Val(db_trips[k].trip_distance_km),
                RMul(ReportedMiles(db_trips[k]), MILES_TO_KM))

-----------------------------------------------------------------------------
InUnitInterval(q) == RLe(R(0), q) /\ RLe(q, R(1))

(* C18: in every row the streaming calculate_features returns, both        *)
(* idle_time_ratio and trip_efficiency are in [0, 1].                      *)
C18_RatiosInUnitInterval ==
    \A k \in DOMAIN out_rows :
        /\ InUnitInterval(Val(out_rows[k].idle_time_ratio))
        /\ InUnitInterval(Val(out_rows[k].trip_efficiency))

(* The half of C18 about idle_time_ratio. *)
C18_IdleRatioInUnitInterval ==
    \A k \in DOMAIN out_rows : InUnitInterval(Val(out_rows[k].idle_time_ratio))

-----------------------------------------------------------------------------
(* Row i of the file has a pickup or dropoff timestamp that is no          *)
(* timestamp.                                                              *)
UnparseableTimestamp(i) ==
    \/ parquet[i].tpep_pickup_datetime.k = "text"
    \/ parquet[i].tpep_dropoff_datetime.k = "text"

(* C19: load_trip_data returns a row for every row of the file, with null  *)
(* in place of a timestamp that cannot be parsed; clean_trip_data puts     *)
(* such a row in the ledger as missing_essential_values and not among the  *)
(* accepted rows, and so it stays to the end of the run.                   *)
C19_UnparsedTimestampIsMissing ==
    pc # "NOT_STARTED" =>
        /\ DOMAIN trips = DOMAIN parquet
        /\ \A i \in DOMAIN parquet :
            /\ parquet[i].tpep_pickup_datetime.k = "text"
                => IsNull(trips[i].tpep_pickup_datetime)
            /\ parquet[i].tpep_dropoff_datetime.k = "text"
                => IsNull(trips[i].tpep_dropoff_datetime)
            /\ (UnparseableTimestamp(i) /\ Cleaned) =>
                /\ Cardinality(Entries(excluded_clean_df, i, "missing_essential_values")) = 1
                /\ RowsOf(excluded_clean_df, i)
                        = Entries(excluded_clean_df, i, "missing_essential_values")
                /\ RowsOf(clean_df.rows, i) = {}
            /\ (UnparseableTimestamp(i) /\ pc = "DONE") =>
                /\ Entries(excluded_df.rows, i, "missing_essential_values") # {}
                /\ RowsOf(engineered_df.rows, i) = {}

C19_Witness ==
    /\ pc = "DONE"
    /\ clean_df.rows # <<>>
    /\ \E i \in DOMAIN parquet :
        /\ parquet[i].tpep_dropoff_datetime.k = "text"
        /\ parquet[i].trip_distance = Some(0)
        /\ Entries(excluded_df.rows, i, "missing_essential_values") # {}

-----------------------------------------------------------------------------
(* The rows of the output that stem from input row i, and the warnings and *)
(* errors logged while row i was processed.                                *)
WrittenFor(i) == {k \in DOMAIN out_rows : out_rows[k].row = i}

LoggedFor(i) == {k \in DOMAIN log : log[k][2] = i /\ log[k][1] \in {"WARNING", "ERROR"}}

Returned0or1 == spc \in {"returned 0", "returned 1"}

-----------------------------------------------------------------------------
LoadReturned == db_ret # "none"

(* Row i of the csv has a number or a time that cannot be parsed, or is    *)
(* rejected by the database on insert.                                     *)
Malformed(i) ==
    \/ \E c \in DOMAIN csv_file.rows[i] \ {"row"} : csv_file.rows[i][c].k = "text"
    \/ i \in rejects

MalformedRows == {i \in DOMAIN csv_file.rows : Malformed(i)}

InsertedFor(i) == {k \in DOMAIN db_trips : db_trips[k].row = i}

(* C21: when load_cleaned_data has returned from a csv with one malformed  *)
(* row, it returned True, the malformed row is not in the table and has a  *)
(* warning with its position, and every other row is in the table once,    *)
(* committed.                                                              *)
C21_MalformedRowSkipped ==
    (path = "csv" /\ LoadReturned /\ csv_file.exists /\ Cardinality(MalformedRows) = 1) =>
        /\ db_ret = "True"
        /\ committed = db_trips
        /\ \A i \in DOMAIN csv_file.rows :
            IF Malformed(i)
            THEN /\ InsertedFor(i) = {}
                 /\ \E k \in DOMAIN db_log : db_log[k] = <<"WARNING", i>>
            ELSE Cardinality(InsertedFor(i)) = 1

(* What holds of C21: a row whose pickup time cannot be parsed and that    *)
(* has no weekday column is skipped with a warning of its position, the    *)
(* other rows are inserted and committed and True is returned, as long as  *)
(* the database rejects no insert.                                         *)
C21_UnreadableTimeSkipped ==
    (path = "csv" /\ LoadReturned /\ csv_file.exists /\ rejects = {}) =>
        /\ db_ret = "True"
        /\ committed = db_trips
        /\ \A i \in DOMAIN csv_file.rows :
            IF RaisesAttributeError(csv_file.rows[i])
            THEN /\ InsertedFor(i) = {}
                 /\ \E k \in DOMAIN db_log : db_log[k] = <<"WARNING", i>>
            ELSE Cardinality(InsertedFor(i)) = 1

-----------------------------------------------------------------------------
RevenueChecked(r) == ~IsNull(r.revenue_per_km)

RevenueNotPositive(r) == r.revenue_per_km[1][1] <= 0

FeatureReasons ==
    {"invalid_trip_duration", "invalid_average_speed", "invalid_revenue_per_km"}

(* C22: every row given to engineer_features is accepted or excluded,      *)
(* once; a row of duration <= 0 is excluded as invalid_trip_duration and   *)
(* has no speed and no revenue computed; a row of positive duration whose  *)
(* speed is not in (0, 150] is excluded as invalid_average_speed and has   *)
(* no revenue computed; a row that passes both and whose revenue per km is *)
(* not positive is excluded as invalid_revenue_per_km; an accepted row has *)
(* positive duration, speed in (0, 150] and positive revenue per km.       *)
C22_ChecksInOrder ==
    Engineered =>
        /\ \A k \in DOMAIN clean_df.rows :
            LET i == clean_df.rows[k].row
            IN  Cardinality(RowsOf(clean_df.rows, i))
                    = Cardinality(RowsOf(engineered_df.rows, i))
                        + Cardinality(RowsOf(excluded_engineered_df, i))
        /\ \A k \in DOMAIN excluded_engineered_df :
            LET r == excluded_engineered_df[k]
            IN  /\ \E reason \in FeatureReasons : r.exclusion_reason = Some(reason)
                /\ r.exclusion_reason = Some("invalid_trip_duration")
                    <=> DurationOf(r) <= 0
                /\ r.exclusion_reason = Some("invalid_trip_duration")
                    => ~SpeedChecked(r) /\ ~RevenueChecked(r)
                /\ r.exclusion_reason = Some("invalid_average_speed")
                    <=> (DurationOf(r) > 0 /\ SpeedChecked(r) /\ SpeedOutOfRange(r))
                /\ r.exclusion_reason = Some("invalid_average_speed")
                    => ~RevenueChecked(r)
                /\ r.exclusion_reason = Some("invalid_revenue_per_km")
                    <=> (/\ DurationOf(r) > 0
                         /\ SpeedChecked(r) /\ ~SpeedOutOfRange(r)
                         /\ RevenueChecked(r) /\ RevenueNotPositive(r))
        /\ \A k \in DOMAIN engineered_df.rows :
            LET r == engineered_df.rows[k]
            IN  /\ DurationOf(r) > 0
                /\ SpeedChecked(r) /\ ~SpeedOutOfRange(r)
                /\ RevenueChecked(r) /\ ~RevenueNotPositive(r)

C22_Witness ==
    /\ Engineered
    /\ \E k \in DOMAIN excluded_engineered_df :
        /\ excluded_engineered_df[k].exclusion_reason = Some("invalid_trip_duration")
        /\ DurationOf(excluded_engineered_df[k]) = 0
        /\ excluded_engineered_df[k].trip_distance = Some(6)
        /\ excluded_engineered_df[k].total_amount = Some(0)
    /\ \E k \in DOMAIN excluded_engineered_df :
        /\ excluded_engineered_df[k].exclusion_reason = Some("invalid_average_speed")
        /\ excluded_engineered_df[k].total_amount = Some(-1)

-----------------------------------------------------------------------------
(* The flag of a pickup on day wd of the week (Monday 0) at hour h.        *)
PeakFlag(wd, h) == IF wd < 5 /\ h \in {7, 8, 9, 16, 17, 18} THEN 1 ELSE 0

BulkPeakFlag(r) ==
    LET t == Val(r.tpep_pickup_datetime)
    IN  PeakFlag((t \div MinutesPerDay) % 7, (t \div MinutesPerHour) % 24)

StreamPeakFlag(r) ==
    LET t == Val(r.pickup_datetime)
    IN  PeakFlag((t \div SecondsPerDay) % 7, (t \div SecondsPerHour) % 24)

(* C23: in every row engineer_features accepts and in every row            *)
(* calculate_features returns, is_peak_hour is 1 exactly when the pickup   *)
(* is on a weekday at an hour in {7, 8, 9} or {16, 17, 18}, else 0.        *)
C23_PeakHourFlag ==
    /\ Engineered =>
        \A k \in DOMAIN engineered_df.rows :
            engineered_df.rows[k].is_peak_hour = Some(BulkPeakFlag(engineered_df.rows[k]))
    /\ \A k \in DOMAIN out_rows :
        out_rows[k].is_peak_hour = Some(StreamPeakFlag(out_rows[k]))

(* The streaming half of C23. *)
C23_StreamingPeakHourFlag ==
    \A k \in DOMAIN out_rows :
        out_rows[k].is_peak_hour = Some(StreamPeakFlag(out_rows[k]))

C23_StreamingWitness ==
    /\ \E k \in DOMAIN out_rows :
        /\ out_rows[k].pickup_hour = Some(10) /\ out_rows[k].is_peak_hour = Some(0)
    /\ \E k \in DOMAIN out_rows :
        /\ out_rows[k].is_weekend = Some(1) /\ out_rows[k].pickup_hour = Some(8)
        /\ out_rows[k].is_peak_hour = Some(0)

-----------------------------------------------------------------------------
(* h / max(d, 1) for the haversine distance h and the distance d of row r. *)
EfficiencyOverMax(r) ==
    RDiv(Val(r.haversine_km), RMax(Val(r.trip_distance_km), R(1)))

RatiosOverMax(r) ==
    /\ REq(Val(r.trip_efficiency), EfficiencyOverMax(r))
    /\ REq(Val(r.idle_time_ratio), Clamp01(RSub(R(1), EfficiencyOverMax(r))))

(* C24: in every row calculate_features returns with a distance d >= 0,    *)
(* trip_efficiency is h / max(d, 1) and idle_time_ratio is                 *)
(* clamp(1 - h / max(d, 1), 0, 1).                                         *)
C24_RatiosOverMax ==
    \A k \in DOMAIN out_rows :
        RLe(R(0), Val(out_rows[k].trip_distance_km)) => RatiosOverMax(out_rows[k])

(* What holds of C24: the same for a distance of 0 or of at least 1 km.    *)
C24_RatiosOverMaxFromOneKm ==
    \A k \in DOMAIN out_rows :
        (\/ REq(Val(out_rows[k].trip_distance_km), R(0))
         \/ RLe(R(1), Val(out_rows[k].trip_distance_km))) => RatiosOverMax(out_rows[k])

-----------------------------------------------------------------------------
(* Lists of names load_cleaned_data calls _get with. *)
NameLists ==
    {<<"pickup_datetime", "tpep_pickup_datetime">>, <<"trip_distance_km">>,
     <<"trip_distance", "distance">>, <<"fare_amount", "fare">>,
     <<"haversine_distance_km", "haversine_km">>, <<"avg_speed_kmh", "average_speed_kmh">>,
     <<"pickup_weekday", "weekday">>, <<"fare", "fare_amount">>,
     <<"average_speed_kmh", "fare", "avg_speed_kmh">>}

(* Name n is a column of the row with a value that is not None, not the    *)
(* empty text and not \N.                                                  *)
Qualifies(row, n) ==
    n \in DOMAIN row /\ row[n] # None /\ row[n] # Empty /\ row[n] # SentinelN

FirstQualifying(row, names) ==
    LET q == {j \in DOMAIN names : Qualifies(row, names[j])}
    IN  IF q = {} THEN 0 ELSE CHOOSE j \in q : \A m \in q : j <= m

(* C25: for every row of the csv and every list of names, _get returns the *)
(* cell of the first name of the list that qualifies, and None when none   *)
(* does; the fare and the speed a row is inserted with are those of the    *)
(* first qualifying spelling.                                              *)
C25_GetFirstQualifying ==
    path = "csv" =>
        /\ \A i \in DOMAIN csv_file.rows : \A names \in NameLists :
            LET row == csv_file.rows[i]
                j == FirstQualifying(row, names)
            IN  Get(row, names) = (IF j = 0 THEN None ELSE row[names[j]])
        /\ \A k \in DOMAIN db_trips :
            LET row == csv_file.rows[db_trips[k].row]
                f == FirstQualifying(row, <<"fare_amount", "fare">>)
                v == FirstQualifying(row, <<"avg_speed_kmh", "average_speed_kmh">>)
            IN  /\ db_trips[k].fare_amount
                    = (IF f = 0 THEN NULL
                       ELSE parse_float(row[<<"fare_amount", "fare">>[f]]))
                /\ db_trips[k].avg_speed_kmh
                    = (IF v = 0 THEN NULL
                       ELSE parse_float(row[<<"avg_speed_kmh", "average_speed_kmh">>[v]]))

C25_Witness ==
    /\ path = "csv" /\ db_ret = "True"
    /\ \E k \in DOMAIN db_trips :
        /\ csv_file.rows[db_trips[k].row].fare_amount = SentinelN
        /\ db_trips[k].fare_amount = Some(R(9))
        /\ IsNull(db_trips[k].haversine_distance_km)
    /\ \E k \in DOMAIN db_trips :
        /\ "average_speed_kmh" \in DOMAIN csv_file.rows[db_trips[k].row]
        /\ "avg_speed_kmh" \in DOMAIN csv_file.rows[db_trips[k].row]
        /\ db_trips[k].avg_speed_kmh = Some(R(30))

-----------------------------------------------------------------------------
(* C26 *)

(* The list manual_merge_sort_trips returned. *)
SortedTrips == sort_result.lists[sort_result.ret]

SortValue(trip) == build_sort_value(trip, sort_field)

SameSortValue(a, b) == PyLe(SortValue(a), SortValue(b)) /\ PyLe(SortValue(b), SortValue(a))

(* Position in all_trips of a trip, which its id holds. *)
InputPosition(trip) == trip.id.v[1]

(* C26: for every list of trips, every sort_field and both directions,     *)
(* manual_merge_sort_trips returns a new list that is a permutation of the *)
(* input, ordered by the sort value of sort_field (non-decreasing when     *)
(* ascending, non-increasing when descending), in which trips of equal     *)
(* sort value keep their relative input order; the input list is left      *)
(* unchanged.                                                              *)
C26_MergeSortStablePermutation ==
    sort_result.called =>
        /\ sort_result.ret # "trips"
        /\ sort_result.lists.trips = all_trips
        /\ Len(SortedTrips) = Len(all_trips)
        /\ \A p \in DOMAIN all_trips : \E q \in DOMAIN SortedTrips : SortedTrips[q] = all_trips[p]
        /\ \A p, q \in DOMAIN SortedTrips :
            p < q =>
                /\ IF ascending
                   THEN PyLe(SortValue(SortedTrips[p]), SortValue(SortedTrips[q]))
                   ELSE PyLe(SortValue(SortedTrips[q]), SortValue(SortedTrips[p]))
                /\ SameSortValue(SortedTrips[p], SortedTrips[q])
                    => InputPosition(SortedTrips[p]) < InputPosition(SortedTrips[q])

(* A descending sort of three trips or more that moves a trip and holds    *)
(* two trips of equal sort value, one of them None and one a number.       *)
C26_Witness ==
    /\ sort_result.called
    /\ ~ascending
    /\ Len(all_trips) >= 3
    /\ SortedTrips # all_trips
    /\ \E p, q \in DOMAIN all_trips :
        /\ p < q
        /\ SameSortValue(all_trips[p], all_trips[q])
        /\ trip_get(all_trips[p], sort_field).k # trip_get(all_trips[q], sort_field).k

-----------------------------------------------------------------------------
(* C27 *)

(* The records the cleaning stage rejects on the inputs, and the records   *)
(* feature engineering rejects of those the cleaning stage kept.           *)
RejectedByCleaning == clean_trip_data(trips, zones).excluded_df

RejectedByFeatures == engineer_features(clean_trip_data(trips, zones).df).excluded_df

InLedgerArtifact(r) ==
    \E k \in DOMAIN files[EXCLUDED_FILE].rows :
        /\ files[EXCLUDED_FILE].rows[k].row = r.row
        /\ files[EXCLUDED_FILE].rows[k].exclusion_reason = r.exclusion_reason

(* C27: over any sequence of runs of run_pipeline on the same inputs, in   *)
(* which a run may be interrupted after the cleaning stage has written     *)
(* cleaned_trips.csv and before the run finishes, once some run reaches    *)
(* the end the exclusion-ledger artifact contains every record rejected by *)
(* the cleaning stage as well as every record rejected by feature          *)
(* engineering.                                                            *)
C27_LedgerHoldsEveryRejected ==
    pc = "DONE" =>
        /\ \A k \in DOMAIN RejectedByCleaning : InLedgerArtifact(RejectedByCleaning[k])
        /\ \A k \in DOMAIN RejectedByFeatures : InLedgerArtifact(RejectedByFeatures[k])

(* What holds: a run of which every stage ran holds them all.              *)
C27_UninterruptedLedgerHoldsEveryRejected ==
    (pc = "DONE" /\ {"clean_trip_data", "engineer_features"} \subseteq calls) =>
        /\ \A k \in DOMAIN RejectedByCleaning : InLedgerArtifact(RejectedByCleaning[k])
        /\ \A k \in DOMAIN RejectedByFeatures : InLedgerArtifact(RejectedByFeatures[k])

-----------------------------------------------------------------------------
(* C28 *)

(* The zone records whose location id is v. *)
MatchedZones(v) == {k \in DOMAIN zones : zones[k].locationid = Val(v)}

(* C28: a record is excluded by clean_trip_data with reason                *)
(* unmatched_zone_lookup only if its pulocationid or its dolocationid      *)
(* equals no location id of the zone lookup: a trip whose two location ids *)
(* both match zone records is never excluded with that reason, whatever    *)
(* the zone-name and borough values of the matched zone records (a null    *)
(* zone name included).                                                    *)
C28_UnmatchedOnlyWithoutZoneRecord ==
    Cleaned =>
        \A i \in DOMAIN trips :
            Entries(excluded_clean_df, i, "unmatched_zone_lookup") # {}
                => ViolatesZoneLookup(i)

(* What holds: a trip excluded so has a location id that matches no zone   *)
(* record or one that matches a zone record of null zone name.             *)
C28_UnmatchedOrNullZoneName ==
    Cleaned =>
        \A i \in DOMAIN trips :
            Entries(excluded_clean_df, i, "unmatched_zone_lookup") # {}
                => \/ ViolatesZoneLookup(i)
                   \/ \E k \in MatchedZones(trips[i].pulocationid)
                            \cup MatchedZones(trips[i].dolocationid) : IsNull(zones[k].zone)

-----------------------------------------------------------------------------
(* C29 *)

(* An insert of this call raised sqlite3.Error: an exception of the load   *)
(* that the handler of the row does not catch.                             *)
FatalRaised ==
    \E i \in 1..row_i : i \in rejects /\ ~RaisesAttributeError(csv_file.rows[i])

(* Rows of the csv that this call inserted before the point it is at.      *)
InsertedBefore(n) ==
    {i \in 1..(n - 1) : i \notin rejects /\ ~RaisesAttributeError(csv_file.rows[i])}

(* C29: load_cleaned_data is all-or-nothing for fatal failures: when the   *)
(* csv file is missing, or an exception other than a per-row skip occurs   *)
(* during the load, the call returns False and the table trips holds none  *)
(* of the rows inserted by this call; the call returns True only after the *)
(* inserted rows have been committed.                                      *)
C29_AllOrNothing ==
    /\ (LoadReturned /\ (~csv_file.exists \/ FatalRaised)) =>
        /\ db_ret = "False"
        /\ db_trips = committed
        /\ db_trips = <<>>
    /\ db_ret = "True" =>
        /\ csv_file.exists /\ row_i = Len(csv_file.rows)
        /\ committed = db_trips
        /\ Len(db_trips) = Cardinality(InsertedBefore(row_i + 1))
    /\ ~LoadReturned => committed = <<>>

(* An insert is rejected after this call inserted a row: the call has      *)
(* returned False.                                                         *)
C29_Witness ==
    /\ db_ret = "False"
    /\ csv_file.exists
    /\ FatalRaised
    /\ InsertedBefore(row_i) # {}

C29_WitnessNoFile == db_ret = "False" /\ ~csv_file.exists /\ path = "csv"

C29_WitnessCommitted == db_ret = "True" /\ db_trips # <<>> /\ path = "csv"

-----------------------------------------------------------------------------
(* C30 *)

(* Thread t has returned from _cache_get. *)
Got(t) == th[t].pc = "got"

(* C30: under any interleaving of concurrent _cache_get and _cache_set     *)
(* calls, _cache_get(key) returns a payload only if it is the payload of   *)
(* the latest completed _cache_set for that key and the time of the call   *)
(* (its now) is strictly before the expiry of that entry; a _cache_get at  *)
(* or after the expiry of the entry it finds returns None and leaves no    *)
(* entry under the key; an entry is removed only when it has expired, so   *)
(* never one stored by a later _cache_set that has not expired; the cache  *)
(* holds under a key nothing but the entry of the latest completed         *)
(* _cache_set for it.                                                      *)
C30_CacheGetFreshLatest ==
    /\ \A key \in CacheKeys : cache[key] \in {NoEntry, latest[key]}
    /\ \A t \in CacheThreads :
        Got(t) =>
            /\ th[t].ret # 0 =>
                /\ th[t].found.has
                /\ th[t].found = th[t].known
                /\ th[t].ret = th[t].known.payload
                /\ th[t].now < th[t].found.expires_at
                /\ th[t].left = th[t].found
            /\ (th[t].found.has /\ th[t].now >= th[t].found.expires_at) =>
                /\ th[t].ret = 0
                /\ th[t].left = NoEntry
            /\ th[t].left # th[t].found =>
                /\ th[t].left = NoEntry
                /\ th[t].found.expires_at <= th[t].now
                /\ th[t].found.expires_at <= th[t].at
            /\ ~th[t].found.has => th[t].ret = 0

(* One thread got the payload of the second _cache_set while the other     *)
(* found an expired entry and removed it.                                  *)
C30_Witness ==
    \E t, u \in CacheThreads :
        /\ Got(t) /\ th[t].ret = 2
        /\ Got(u) /\ th[u].found.has /\ th[u].left = NoEntry /\ th[u].ret = 0

(* A _cache_get that began before a _cache_set completed returns the       *)
(* payload of that _cache_set.                                             *)
C30_WitnessLaterSet ==
    \E t, u \in CacheThreads :
        /\ Got(t) /\ th[t].ret # 0
        /\ th[u].pc = "stored" /\ th[u].payload = th[t].ret
        /\ th[t].now < th[u].expires_at - ttl_seconds(th[u].key)

====
